---- MODULE Spec2Model ----
(***************************************************************************)
(* Verification model of the quantization-and-decomposition scripts of     *)
(* geometric-particle-physics.                                             *)
(*                                                                         *)
(*   SpecDecomp : q_pattern_analysis.express_q_as_combination, one target  *)
(*                q at a time: the best-fit search (lines 71-94) followed  *)
(*                by the all-representations search (lines 104-119); and   *)
(*                the q = 3a + 4b search of quantum_number_analysis        *)
(*                (lines 107-117), one particle at a time.                 *)
(*   SpecScripts: the table-printing loops (definitive_a5_model_fixed,     *)
(*                verify_simple, coefficient_patterns, complete_paper) and *)
(*                the quantizing loaders (model_builder_clean,             *)
(*                focused_a5_analysis, focused_a5_complete with its        *)
(*                quantization check), one script per behaviour.           *)
(*                                                                         *)
(* Real numbers are exact rationals [num, den]; masses are whole numbers   *)
(* of a mass unit; math.log is a table of natural logarithms in units of   *)
(* 1e-6, applied to the quotient mass/m_e in lowest terms.                 *)
(***************************************************************************)
EXTENDS Integers, Sequences, FiniteSets, TLC

VARIABLES
    script,           \* which script this behaviour runs
    pc,               \* position inside the running script
    q,                \* decomposer: the target of the current iteration
    a_iter,           \* decomposer: value of the outermost loop variable a
    best_error,       \* decomposer: best_error  (record, float('inf') or a number)
    best_coeffs,      \* decomposer: best_coeffs (a, b, c, d)
    printed_fit,      \* decomposer: the line printed at line 94, <<>> before
    representations,  \* decomposer: the list built at lines 107-113
    printed_reps,     \* decomposer: what lines 116-119 print, <<>> if nothing
    found,            \* quantum_number_analysis: the flag `found`
    printed_pairs,    \* quantum_number_analysis: the lines printed at line 113
    row_i,            \* table scripts: index of the next table row
    printed_rows,     \* table scripts: the rows printed so far
    store,            \* loaders: the particles table, name -> mass_gev
    n_mode,           \* loaders: what the n_value column of the table holds
    m_e,              \* loaders: the reference mass m_e
    rows,             \* loaders: the rows the cursor has still to deliver
    particles,        \* loaders: the list `particles`
    raised,           \* loaders: the exception that ended the script, or "none"
    perfect_matches,  \* focused_a5_complete: perfect_matches, with the row count
    args,             \* a function applied on its own: its arguments
    result,           \* a function applied on its own: what it returned
    saves_json,       \* save.py, load.py: the file saves.json
    last_save_txt,    \* save.py: the file last_save.txt
    clock,            \* save.py: the minute datetime.now() last fell in
    history,          \* save.py: every entry appended so far, oldest first
    particles_table,  \* database scripts: the table particles
    sequence,         \* setup_database: the largest id AUTOINCREMENT gave out
    stdout            \* what the script run last has printed

decompVars == <<q, a_iter, best_error, best_coeffs, printed_fit,
                representations, printed_reps, found, printed_pairs>>

tableVars == <<row_i, printed_rows>>

loadVars == <<store, n_mode, m_e, rows, particles, raised, perfect_matches>>

unitVars == <<args, result>>

fileVars == <<saves_json, last_save_txt, clock, history, particles_table,
              sequence, stdout>>

vars == <<script, pc, decompVars, tableVars, loadVars, unitVars, fileVars>>

----------------------------------------------------------------------------
(* Generic helpers                                                         *)

Abs(x) == IF x < 0 THEN -x ELSE x

Min(x, y) == IF x <= y THEN x ELSE y

\* Python range(start, stop, step), step = 1 or -1
Range(start, stop) == [start |-> start, stop |-> stop, step |-> 1]

\* whether the loop variable v is still inside the range
InRange(r, v) == IF r.step > 0 THEN v < r.stop ELSE v > r.stop

\* the same values, enumerated from the last one down to the first one
Reversed(r) == [start |-> r.stop - r.step, stop |-> r.start - r.step,
                step |-> -r.step]


----------------------------------------------------------------------------
(* q_pattern_analysis.py : the table of targets and the basis              *)

QNames == <<"electron_neutrino", "muon_neutrino", "tau_neutrino", "electron",
            "up_quark", "down_quark", "strange_quark", "muon", "charm_quark",
            "tau", "bottom_quark", "top_quark", "W_boson", "Z_boson",
            "higgs_boson">>

\* q_values, lines 41-57
q_values ==
    [n \in {QNames[i] : i \in 1..Len(QNames)} |->
        CASE n = "electron_neutrino" -> -224
          [] n = "muon_neutrino"     -> -180
          [] n = "tau_neutrino"      -> -162
          [] n = "electron"          -> 0
          [] n = "up_quark"          -> 12
          [] n = "down_quark"        -> 18
          [] n = "strange_quark"     -> 44
          [] n = "muon"              -> 44
          [] n = "charm_quark"       -> 65
          [] n = "tau"               -> 68
          [] n = "bottom_quark"      -> 75
          [] n = "top_quark"         -> 106
          [] n = "W_boson"           -> 100
          [] n = "Z_boson"           -> 100
          [] n = "higgs_boson"       -> 103]

\* bases = [8, 15, 24], line 66
bases == <<8, 15, 24>>

\* a*8 + b*15 + c*24, lines 80 and 111
Combination(a, b, c) == a * bases[1] + b * bases[2] + c * bases[3]

\* best-fit search box: range(-30, 31), range(-20, 21), range(-10, 11)
BestALo == -30
BestAHi == 31
BestBLo == -20
BestBHi == 21
BestCLo == -10
BestCHi == 11
\* "if abs(d) < 20", line 84
BestDLimit == 20

\* all-representations box: range(-10, 11) on every axis, "abs(d) <= 10"
RepLo == -10
RepHi == 11
RepDLimit == 10

\* representations[:3], line 118
ShowFirst == 3

----------------------------------------------------------------------------
(* Targets fed to the per-target loop body.  The table q_values, the       *)
(* out-of-range target 999999, and targets beyond the largest value the    *)
(* best-fit box reaches, on both sides (there the minimal residual is      *)
(* positive, and from MaxReach + 20 on no triple is accepted at all).      *)

FarTarget == 999999

ProbeSpan == 1

ProbeGap == 12

MaxReach == Combination(BestAHi - 1, BestBHi - 1, BestCHi - 1)

Targets ==
    {q_values[n] : n \in DOMAIN q_values}
      \cup {FarTarget}
      \cup {MaxReach + ProbeGap * k : k \in 1..ProbeSpan}
      \cup {-MaxReach - ProbeGap * k : k \in 1..ProbeSpan}

----------------------------------------------------------------------------
(* Best-fit search, lines 71-94                                            *)

\* float('inf') is [inf |-> TRUE]; a finite error is [inf |-> FALSE, val |-> e]
Infinity == [inf |-> TRUE, val |-> 0]

Finite(e) == [inf |-> FALSE, val |-> e]

\* (mutant) "error <= best_error": a later tie replaces the earlier triple
ImprovesOrTies(error, be) == be.inf \/ error <= be.val

\* "error < best_error", line 86
Improves(error, be) == be.inf \/ error < be.val

\* "if abs(d) < 20", line 84
Accepts(d) == Abs(d) < BestDLimit

\* the loop body, lines 80-88, on the pair best = <<best_error, best_coeffs>>
BestBody(qq, a, b, c, best) ==
    LET calculated == Combination(a, b, c)
        d == qq - calculated
    IN  IF Accepts(d)
        THEN LET error == Abs(d)
             IN  IF Improves(error, best[1])
                 THEN <<Finite(error), <<a, b, c, d>>>>
                 ELSE best
        ELSE best

RECURSIVE ScanC(_, _, _, _, _, _)
\* "for c in cs", line 78, from the value c on
ScanC(qq, a, b, cs, c, best) ==
    IF ~InRange(cs, c) THEN best
    ELSE ScanC(qq, a, b, cs, c + cs.step, BestBody(qq, a, b, c, best))

RECURSIVE ScanB(_, _, _, _, _, _)
\* "for b in bs", line 77, from the value b on.  (The comparison makes TLC
\* finish one row before it starts the next.)
ScanB(qq, a, bs, cs, b, best) ==
    IF ~InRange(bs, b) THEN best
    ELSE LET row == ScanC(qq, a, b, cs, cs.start, best)
         IN  IF row = best THEN ScanB(qq, a, bs, cs, b + bs.step, best)
             ELSE ScanB(qq, a, bs, cs, b + bs.step, row)

RECURSIVE ScanA(_, _, _, _, _, _)
\* "for a in as", line 76, from the value a on
ScanA(qq, as, bs, cs, a, best) ==
    IF ~InRange(as, a) THEN best
    ELSE LET slab == ScanB(qq, a, bs, cs, bs.start, best)
         IN  IF slab = best THEN ScanA(qq, as, bs, cs, a + as.step, best)
             ELSE ScanA(qq, as, bs, cs, a + as.step, slab)

\* (mutant) the outermost loop run from 30 down to -30
BestAsDescending == Reversed(Range(BestALo, BestAHi))

\* the three ranges as the code writes them
BestAs == Range(BestALo, BestAHi)
BestBs == Range(BestBLo, BestBHi)
BestCs == Range(BestCLo, BestCHi)

\* lines 72-73
BestStart == <<Infinity, <<0, 0, 0, 0>>>>

\* the whole search of lines 72-88 with the three axes enumerated in the
\* given orders; returns <<best_error, best_coeffs>>
BestFitSearch(qq, as, bs, cs) == ScanA(qq, as, bs, cs, as.start, BestStart)

\* the order in which the code enumerates the box, and two other orders:
\* every axis reversed, and the middle axis alone reversed
CodeOrder == <<BestAs, BestBs, BestCs>>

OtherOrders ==
    {<<Reversed(BestAs), Reversed(BestBs), Reversed(BestCs)>>,
     <<BestAs, Reversed(BestBs), BestCs>>}

\* lines 90-94: the printed line
FitLine(qq, coeffs) ==
    LET q_calc == Combination(coeffs[1], coeffs[2], coeffs[3]) + coeffs[4]
    IN  [q |-> qq, coeffs |-> coeffs, q_calc |-> q_calc,
         error |-> Abs(qq - q_calc)]

----------------------------------------------------------------------------
(* All-representations search, lines 104-119                               *)

\* "if abs(d) <= 10", line 112
RepAccepts(d) == Abs(d) <= RepDLimit

\* (mutant) range(-10, 10): the upper edge of the box is never visited
RepRangeShort == Range(RepLo, RepHi - 1)

\* range(-10, 11), lines 108-110
RepRange == Range(RepLo, RepHi)

\* lines 111-113
RepBody(qq, a, b, c, reps) ==
    LET d == qq - Combination(a, b, c)
    IN  IF RepAccepts(d) THEN Append(reps, <<a, b, c, d>>) ELSE reps

RECURSIVE RepScanC(_, _, _, _, _, _)
\* "for c in range(-10, 11)", line 110
RepScanC(qq, a, b, cs, c, reps) ==
    IF ~InRange(cs, c) THEN reps
    ELSE RepScanC(qq, a, b, cs, c + cs.step, RepBody(qq, a, b, c, reps))

RECURSIVE RepScanB(_, _, _, _, _, _)
\* "for b in range(-10, 11)", line 109
RepScanB(qq, a, bs, cs, b, reps) ==
    IF ~InRange(bs, b) THEN reps
    ELSE LET row == RepScanC(qq, a, b, cs, cs.start, reps)
         IN  IF Len(row) = Len(reps)
             THEN RepScanB(qq, a, bs, cs, b + bs.step, reps)
             ELSE RepScanB(qq, a, bs, cs, b + bs.step, row)

\* lines 116-119: count and the first three; <<>> when nothing is printed
RepsLine(qq, reps) ==
    IF reps # <<>>
    THEN <<[q |-> qq, count |-> Len(reps),
            shown |-> SubSeq(reps, 1, Min(ShowFirst, Len(reps)))]>>
    ELSE <<>>

----------------------------------------------------------------------------
(* SpecDecomp: express_q_as_combination for one target                     *)

\* the variables of the other scripts, which a search never touches
IdleTables == row_i = 0 /\ printed_rows = <<>>

IdleUnit ==
    /\ args = <<>>
    /\ result = <<>>

\* a file that does not exist, a list in saves.json, a table without rows
\* that does not exist, and a terminal nothing was printed on
NoFile == [exists |-> FALSE, saves |-> <<>>]

ListFile(saves) == [exists |-> TRUE, saves |-> saves]

NoText == [exists |-> FALSE, time |-> 0, what |-> ""]

NoTable == [exists |-> FALSE, rows |-> <<>>]

Table(rs) == [exists |-> TRUE, rows |-> rs]

NoOutput == [script |-> "none"]

IdleFiles ==
    /\ saves_json = NoFile
    /\ last_save_txt = NoText
    /\ clock = 0
    /\ history = <<>>
    /\ particles_table = NoTable
    /\ sequence = 0
    /\ stdout = NoOutput

IdleLoad ==
    /\ store = <<>>
    /\ n_mode = "null"
    /\ m_e = 0
    /\ rows = <<>>
    /\ particles = <<>>
    /\ raised = "none"
    /\ perfect_matches = <<0, 0>>

InitDecomp ==
    /\ IdleTables
    /\ IdleLoad
    /\ IdleUnit
    /\ IdleFiles
    /\ script = "q_pattern_analysis"
    /\ pc = "best_fit"
    /\ q \in Targets
    /\ a_iter = BestAs.start
    /\ best_error = BestStart[1]
    /\ best_coeffs = BestStart[2]
    /\ printed_fit = <<>>
    /\ representations = <<>>
    /\ printed_reps = <<>>
    /\ found = FALSE
    /\ printed_pairs = <<>>

\* one turn of "for a in range(-30, 31)" with its two inner loops
BestFitStep ==
    /\ script = "q_pattern_analysis"
    /\ pc = "best_fit"
    /\ InRange(BestAs, a_iter)
    /\ \E r \in {ScanB(q, a_iter, BestBs, BestCs, BestBs.start,
                       <<best_error, best_coeffs>>)} :
           /\ best_error' = r[1]
           /\ best_coeffs' = r[2]
    /\ a_iter' = a_iter + BestAs.step
    /\ UNCHANGED fileVars
    /\ UNCHANGED <<script, pc, q, printed_fit, representations, printed_reps,
                   found, printed_pairs, tableVars, loadVars, unitVars>>

\* loop exhausted: lines 90-94 print the fit; the second search starts
BestFitReport ==
    /\ script = "q_pattern_analysis"
    /\ pc = "best_fit"
    /\ ~InRange(BestAs, a_iter)
    /\ printed_fit' = <<FitLine(q, best_coeffs)>>
    /\ pc' = "all_reps"
    /\ a_iter' = RepRange.start
    /\ representations' = <<>>
    /\ UNCHANGED fileVars
    /\ UNCHANGED <<script, q, best_error, best_coeffs, printed_reps, found,
                   printed_pairs, tableVars, loadVars, unitVars>>

\* one turn of "for a in range(-10, 11)" with its two inner loops
AllRepsStep ==
    /\ script = "q_pattern_analysis"
    /\ pc = "all_reps"
    /\ InRange(RepRange, a_iter)
    /\ representations' = RepScanB(q, a_iter, RepRange, RepRange,
                                   RepRange.start, representations)
    /\ a_iter' = a_iter + RepRange.step
    /\ UNCHANGED fileVars
    /\ UNCHANGED <<script, pc, q, best_error, best_coeffs, printed_fit,
                   printed_reps, found, printed_pairs, tableVars, loadVars, unitVars>>

\* loop exhausted: lines 115-119
AllRepsReport ==
    /\ script = "q_pattern_analysis"
    /\ pc = "all_reps"
    /\ ~InRange(RepRange, a_iter)
    /\ printed_reps' = RepsLine(q, representations)
    /\ pc' = "done"
    /\ UNCHANGED fileVars
    /\ UNCHANGED <<script, q, a_iter, best_error, best_coeffs, printed_fit,
                   representations, found, printed_pairs, tableVars, loadVars, unitVars>>

----------------------------------------------------------------------------
(* quantum_number_analysis.py, lines 104-117: "Trying q = 3a + 4b"         *)

PairAlpha == 3
PairBeta == 4
PairLo == -10
PairHi == 11

\* range(-10, 11), lines 110-111
PairRange == Range(PairLo, PairHi)

RECURSIVE PairScanB(_, _, _, _)
\* "for b in range(-10, 11)" with its break, lines 111-115: the line printed
\* for the first b that fits, <<>> when no b fits
PairScanB(qq, a, bs, b) ==
    IF ~InRange(bs, b) THEN <<>>
    ELSE IF PairAlpha * a + PairBeta * b = qq THEN <<[q |-> qq, a |-> a, b |-> b]>>
    ELSE PairScanB(qq, a, bs, b + bs.step)

InitPair ==
    /\ IdleTables
    /\ IdleLoad
    /\ IdleUnit
    /\ IdleFiles
    /\ script = "quantum_number_analysis"
    /\ pc = "pair_search"
    /\ q \in Targets
    /\ a_iter = PairRange.start
    /\ found = FALSE
    /\ printed_pairs = <<>>
    /\ best_error = BestStart[1]
    /\ best_coeffs = BestStart[2]
    /\ printed_fit = <<>>
    /\ representations = <<>>
    /\ printed_reps = <<>>

\* one turn of "for a in range(-10, 11)"; a hit sets found and breaks
PairStep ==
    /\ script = "quantum_number_analysis"
    /\ pc = "pair_search"
    /\ InRange(PairRange, a_iter)
    /\ ~found
    /\ \E hit \in {PairScanB(q, a_iter, PairRange, PairRange.start)} :
           /\ printed_pairs' = printed_pairs \o hit
           /\ found' = (hit # <<>>)
           /\ a_iter' = IF hit # <<>> THEN a_iter ELSE a_iter + PairRange.step
    /\ UNCHANGED fileVars
    /\ UNCHANGED <<script, pc, q, best_error, best_coeffs, printed_fit,
                   representations, printed_reps, tableVars, loadVars, unitVars>>

\* the loop over a ends, by the break of lines 116-117 or by exhaustion
PairDone ==
    /\ script = "quantum_number_analysis"
    /\ pc = "pair_search"
    /\ found \/ ~InRange(PairRange, a_iter)
    /\ pc' = "done"
    /\ UNCHANGED fileVars
    /\ UNCHANGED <<script, decompVars, tableVars, loadVars, unitVars>>

NextDecomp ==
    \/ BestFitStep \/ BestFitReport \/ AllRepsStep \/ AllRepsReport
    \/ PairStep \/ PairDone

InitSearch == InitDecomp \/ InitPair

SpecDecomp == InitSearch /\ [][NextDecomp]_vars

----------------------------------------------------------------------------
(* The hard-coded coefficient tables and the loops that print them         *)

\* definitive_a5_model_fixed.py, coeffs, lines 75-91 (in dictionary order)
coeffs ==
    <<[name |-> "electron_neutrino", a |-> -28, b |-> -16, c |-> 10],
      [name |-> "muon_neutrino", a |-> -30, b |-> -12, c |-> 10],
      [name |-> "tau_neutrino", a |-> -30, b |-> -6, c |-> 7],
      [name |-> "electron", a |-> -30, b |-> 0, c |-> 10],
      [name |-> "up_quark", a |-> -30, b |-> 4, c |-> 8],
      [name |-> "down_quark", a |-> -30, b |-> 6, c |-> 7],
      [name |-> "strange_quark", a |-> -29, b |-> 4, c |-> 9],
      [name |-> "muon", a |-> -29, b |-> 4, c |-> 9],
      [name |-> "charm_quark", a |-> -29, b |-> 7, c |-> 8],
      [name |-> "tau", a |-> -29, b |-> 4, c |-> 10],
      [name |-> "bottom_quark", a |-> -30, b |-> 5, c |-> 10],
      [name |-> "top_quark", a |-> -28, b |-> 6, c |-> 10],
      [name |-> "W_boson", a |-> -28, b |-> 12, c |-> 6],
      [name |-> "Z_boson", a |-> -28, b |-> 12, c |-> 6],
      [name |-> "higgs_boson", a |-> -28, b |-> 9, c |-> 8]>>

\* definitive_a5_model_fixed.py, actual_q, lines 101-106 (and 246-251)
actual_q ==
    <<[name |-> "electron_neutrino", q |-> -224],
      [name |-> "muon_neutrino", q |-> -180],
      [name |-> "tau_neutrino", q |-> -162],
      [name |-> "electron", q |-> 0],
      [name |-> "up_quark", q |-> 12],
      [name |-> "down_quark", q |-> 18],
      [name |-> "strange_quark", q |-> 44],
      [name |-> "muon", q |-> 44],
      [name |-> "charm_quark", q |-> 65],
      [name |-> "tau", q |-> 68],
      [name |-> "bottom_quark", q |-> 75],
      [name |-> "top_quark", q |-> 106],
      [name |-> "W_boson", q |-> 100],
      [name |-> "Z_boson", q |-> 100],
      [name |-> "higgs_boson", q |-> 103]>>

\* coefficient_patterns.py, coeffs, lines 10-26
pattern_coeffs ==
    <<[name |-> "electron_neutrino", a |-> -28, b |-> -16, c |-> 10],
      [name |-> "muon_neutrino", a |-> -30, b |-> -12, c |-> 10],
      [name |-> "tau_neutrino", a |-> -30, b |-> -6, c |-> 7],
      [name |-> "electron", a |-> -30, b |-> 0, c |-> 10],
      [name |-> "up_quark", a |-> -30, b |-> 4, c |-> 8],
      [name |-> "down_quark", a |-> -30, b |-> 6, c |-> 7],
      [name |-> "strange_quark", a |-> -29, b |-> 4, c |-> 9],
      [name |-> "muon", a |-> -29, b |-> 4, c |-> 9],
      [name |-> "charm_quark", a |-> -29, b |-> 7, c |-> 8],
      [name |-> "tau", a |-> -29, b |-> 4, c |-> 10],
      [name |-> "bottom_quark", a |-> -30, b |-> 5, c |-> 10],
      [name |-> "top_quark", a |-> -28, b |-> 6, c |-> 10],
      [name |-> "W_boson", a |-> -28, b |-> 12, c |-> 6],
      [name |-> "Z_boson", a |-> -28, b |-> 12, c |-> 6],
      [name |-> "higgs_boson", a |-> -28, b |-> 9, c |-> 8]>>

\* verify_simple.py, coefficients, lines 6-21 (no bottom_quark entry)
coefficients ==
    <<[name |-> "electron", a |-> -30, b |-> 0, c |-> 10],
      [name |-> "up_quark", a |-> -30, b |-> 4, c |-> 8],
      [name |-> "down_quark", a |-> -30, b |-> 6, c |-> 7],
      [name |-> "strange_quark", a |-> -29, b |-> 4, c |-> 9],
      [name |-> "charm_quark", a |-> -29, b |-> 7, c |-> 8],
      [name |-> "top_quark", a |-> -28, b |-> 6, c |-> 10],
      [name |-> "muon", a |-> -29, b |-> 4, c |-> 9],
      [name |-> "tau", a |-> -29, b |-> 4, c |-> 10],
      [name |-> "electron_neutrino", a |-> -28, b |-> -16, c |-> 10],
      [name |-> "muon_neutrino", a |-> -30, b |-> -12, c |-> 10],
      [name |-> "tau_neutrino", a |-> -30, b |-> -6, c |-> 7],
      [name |-> "W_boson", a |-> -28, b |-> 12, c |-> 6],
      [name |-> "Z_boson", a |-> -28, b |-> 12, c |-> 6],
      [name |-> "higgs_boson", a |-> -28, b |-> 9, c |-> 8]>>

\* complete_paper.py, the rows of tab:qvalues, lines 75-89
paper_qvalues ==
    <<[name |-> "electron_neutrino", q |-> -224],
      [name |-> "muon_neutrino", q |-> -180],
      [name |-> "tau_neutrino", q |-> -162],
      [name |-> "electron", q |-> 0],
      [name |-> "up_quark", q |-> 12],
      [name |-> "down_quark", q |-> 18],
      [name |-> "strange_quark", q |-> 44],
      [name |-> "muon", q |-> 44],
      [name |-> "charm_quark", q |-> 65],
      [name |-> "tau", q |-> 68],
      [name |-> "bottom_quark", q |-> 75],
      [name |-> "top_quark", q |-> 106],
      [name |-> "W_boson", q |-> 99],
      [name |-> "Z_boson", q |-> 101],
      [name |-> "higgs_boson", q |-> 103]>>

\* complete_paper.py, the rows of tab:coefficients, lines 102-116
paper_coefficients ==
    <<[name |-> "electron_neutrino", a |-> -28, b |-> -16, c |-> 10, q_calc |-> -224, error |-> 0],
      [name |-> "muon_neutrino", a |-> -30, b |-> -12, c |-> 10, q_calc |-> -180, error |-> 0],
      [name |-> "tau_neutrino", a |-> -30, b |-> -6, c |-> 7, q_calc |-> -162, error |-> 0],
      [name |-> "electron", a |-> -30, b |-> 0, c |-> 10, q_calc |-> 0, error |-> 0],
      [name |-> "up_quark", a |-> -30, b |-> 4, c |-> 8, q_calc |-> 12, error |-> 0],
      [name |-> "down_quark", a |-> -30, b |-> 6, c |-> 7, q_calc |-> 18, error |-> 0],
      [name |-> "strange_quark", a |-> -29, b |-> 4, c |-> 9, q_calc |-> 44, error |-> 0],
      [name |-> "muon", a |-> -29, b |-> 4, c |-> 9, q_calc |-> 44, error |-> 0],
      [name |-> "charm_quark", a |-> -29, b |-> 7, c |-> 8, q_calc |-> 65, error |-> 0],
      [name |-> "tau", a |-> -29, b |-> 4, c |-> 10, q_calc |-> 68, error |-> 0],
      [name |-> "bottom_quark", a |-> -30, b |-> 5, c |-> 10, q_calc |-> 75, error |-> 0],
      [name |-> "top_quark", a |-> -28, b |-> 6, c |-> 10, q_calc |-> 106, error |-> 0],
      [name |-> "W_boson", a |-> -28, b |-> 12, c |-> 6, q_calc |-> 99, error |-> 0],
      [name |-> "Z_boson", a |-> -28, b |-> 12, c |-> 6, q_calc |-> 101, error |-> 0],
      [name |-> "higgs_boson", a |-> -28, b |-> 9, c |-> 8, q_calc |-> 103, error |-> 0]>>

\* table[name]: the row of a table (a sequence of records) with that name
Lookup(table, name) == table[CHOOSE i \in 1..Len(table) : table[i].name = name]

Has(table, name) == \E i \in 1..Len(table) : table[i].name = name

\* (mutant) the basis taken as 8, 15, 25
SumOfBasisOff(a, b, c) == 8 * a + 15 * b + 25 * c

\* "a*8 + b*15 + c*24", definitive_a5_model_fixed.py line 99 and line 245,
\* verify_simple.py line 29
SumOfBasis(a, b, c) == 8 * a + 15 * b + 24 * c

\* find_integer_coefficients, lines 98-109: the row printed for coeffs[i]
IntegerCoefficientsRow(i) ==
    LET r == coeffs[i]
        q_calc == SumOfBasis(r.a, r.b, r.c)
        actual == Lookup(actual_q, r.name).q
    IN  [name |-> r.name, q |-> actual, a |-> r.a, b |-> r.b, c |-> r.c,
         q_calc |-> q_calc, match |-> (q_calc = actual)]

\* find_simple_rules, lines 244-253: the row printed for coeffs[i]
SimpleRulesRow(i) ==
    LET r == coeffs[i]
        calculated == SumOfBasis(r.a, r.b, r.c)
        actual == Lookup(actual_q, r.name).q
    IN  [name |-> r.name, q |-> actual, a |-> r.a, b |-> r.b, c |-> r.c,
         q_calc |-> calculated, match |-> (calculated = actual)]

\* verify_simple.py, lines 28-30: the row printed for coefficients[i]
VerifySimpleRow(i) ==
    LET r == coefficients[i]
    IN  [name |-> r.name, a |-> r.a, b |-> r.b, c |-> r.c,
         q_calc |-> SumOfBasis(r.a, r.b, r.c)]

\* coefficient_patterns.py: q = 8*a + 15*b + 24*c (line 169) for coeffs[i]
PatternRow(i) ==
    LET r == pattern_coeffs[i]
    IN  [name |-> r.name, a |-> r.a, b |-> r.b, c |-> r.c,
         q_calc |-> SumOfBasis(r.a, r.b, r.c)]

\* complete_paper.py: row i of tab:coefficients as written into the paper,
\* with the q the paper's tab:qvalues prints for the same particle
PaperRow(i) ==
    LET r == paper_coefficients[i]
    IN  [name |-> r.name, a |-> r.a, b |-> r.b, c |-> r.c,
         q_calc |-> r.q_calc, error |-> r.error,
         q |-> Lookup(paper_qvalues, r.name).q]

TableScripts ==
    {"definitive_find_integer_coefficients", "definitive_find_simple_rules",
     "verify_simple", "coefficient_patterns", "complete_paper"}

\* the number of rows the loop of a table script walks
TableLen(sc) ==
    CASE sc = "definitive_find_integer_coefficients" -> Len(coeffs)
      [] sc = "definitive_find_simple_rules" -> Len(coeffs)
      [] sc = "verify_simple" -> Len(coefficients)
      [] sc = "coefficient_patterns" -> Len(pattern_coeffs)
      [] sc = "complete_paper" -> Len(paper_coefficients)

TableRow(sc, i) ==
    CASE sc = "definitive_find_integer_coefficients" -> IntegerCoefficientsRow(i)
      [] sc = "definitive_find_simple_rules" -> SimpleRulesRow(i)
      [] sc = "verify_simple" -> VerifySimpleRow(i)
      [] sc = "coefficient_patterns" -> PatternRow(i)
      [] sc = "complete_paper" -> PaperRow(i)

IdleDecomp ==
    /\ q = 0
    /\ a_iter = 0
    /\ best_error = BestStart[1]
    /\ best_coeffs = BestStart[2]
    /\ printed_fit = <<>>
    /\ representations = <<>>
    /\ printed_reps = <<>>
    /\ found = FALSE
    /\ printed_pairs = <<>>

InitTables ==
    /\ IdleDecomp
    /\ IdleLoad
    /\ IdleUnit
    /\ IdleFiles
    /\ script \in TableScripts
    /\ pc = "rows"
    /\ row_i = 1
    /\ printed_rows = <<>>

\* one turn of the loop over the table: the next row is printed
TableStep ==
    /\ script \in TableScripts
    /\ pc = "rows"
    /\ row_i <= TableLen(script)
    /\ printed_rows' = Append(printed_rows, TableRow(script, row_i))
    /\ row_i' = row_i + 1
    /\ UNCHANGED fileVars
    /\ UNCHANGED <<script, pc, decompVars, loadVars, unitVars>>

\* the loop over the table is exhausted
TableDone ==
    /\ script \in TableScripts
    /\ pc = "rows"
    /\ row_i > TableLen(script)
    /\ pc' = "done"
    /\ UNCHANGED fileVars
    /\ UNCHANGED <<script, decompVars, tableVars, loadVars, unitVars>>

----------------------------------------------------------------------------
(* Numbers: exact rationals in lowest terms, Python's round()              *)

RECURSIVE GCD(_, _)
GCD(x, y) == IF y = 0 THEN x ELSE GCD(y, x % y)

\* the rational n/d (d # 0) in lowest terms with a positive denominator
Rat(n, d) ==
    LET sn == IF d < 0 THEN -n ELSE n
        sd == Abs(d)
        g == GCD(Abs(sn), sd)
    IN  [num |-> sn \div g, den |-> sd \div g]

RatTimes(r, k) == Rat(r.num * k, r.den)

RatOver(r, k) == Rat(r.num, r.den * k)

RatMinus(r, t) == Rat(r.num * t.den - t.num * r.den, r.den * t.den)

RatPlus(r, t) == Rat(r.num * t.den + t.num * r.den, r.den * t.den)

RatProd(r, t) == Rat(r.num * t.num, r.den * t.den)

\* r / t, t # 0
RatQuot(r, t) == Rat(r.num * t.den, r.den * t.num)

RatAbs(r) == [num |-> Abs(r.num), den |-> r.den]

RatLess(r, t) == r.num * t.den < t.num * r.den

IsInteger(r) == r.den = 1

\* (mutant) int(x) on a non-negative x, floor(x): no rounding to nearest
RoundDown(r) == r.num \div r.den

\* Python 3 round(x): the nearest integer, a tie going to the even one
Round(r) ==
    LET fl == r.num \div r.den
        twice == 2 * (r.num - fl * r.den)
    IN  IF twice < r.den THEN fl
        ELSE IF twice > r.den THEN fl + 1
        ELSE IF fl % 2 = 0 THEN fl ELSE fl + 1

----------------------------------------------------------------------------
(* Floating point: a product or a quotient of two floats is rounded to the *)
(* nearest number with MantissaBits significant bits, ties to even (the    *)
(* doubles of Python, with 53 bits, at a width the check can enumerate)    *)

MantissaBits == 3

RECURSIVE Pow2(_)
Pow2(j) == IF j = 0 THEN 1 ELSE 2 * Pow2(j - 1)

\* r / 2^e
Scaled(r, e) ==
    IF e >= 0 THEN Rat(r.num, r.den * Pow2(e)) ELSE Rat(r.num * Pow2(-e), r.den)

RECURSIVE ExponentOf(_, _)
\* the e with 2^(MantissaBits-1) <= r / 2^e < 2^MantissaBits, for r > 0
ExponentOf(r, e) ==
    LET m == Scaled(r, e)
    IN  IF ~RatLess(m, Rat(Pow2(MantissaBits), 1)) THEN ExponentOf(r, e + 1)
        ELSE IF RatLess(m, Rat(Pow2(MantissaBits - 1), 1)) THEN ExponentOf(r, e - 1)
        ELSE e

\* the float nearest to the positive number r
Fl(r) ==
    LET e == ExponentOf(r, 0)
        mantissa == Round(Scaled(r, e))
    IN  Scaled(Rat(mantissa, 1), -e)

\* x * y and x / y on floats x, y > 0 (given as numbers)
FMul(x, y) == Fl(Rat(x.num * y.num, x.den * y.den))

FDiv(x, y) == Fl(Rat(x.num * y.den, x.den * y.num))

----------------------------------------------------------------------------
(* The quantizer: n = log(mass/m_e) / log(phi), round(n * 4) / 4           *)

\* math.log(i) for i = 1..16, in units of 1e-6
LnMicro == <<0, 693147, 1098612, 1386294, 1609438, 1791759, 1945910,
             2079442, 2197225, 2302585, 2397895, 2484907, 2564949, 2639057,
             2708050, 2772589>>

RECURSIVE LnInt(_)
\* math.log(i) for the i of the table and their doubles
LnInt(i) == IF i <= Len(LnMicro) THEN LnMicro[i] ELSE LnMicro[2] + LnInt(i \div 2)

\* math.log(phi), phi = (1 + sqrt(5)) / 2, in units of 1e-6
LnPhiMicro == 481212

\* the exception "log(mass/m_e)" raises, or "none"
LogRaises(mass, ref) ==
    IF ref = 0 THEN "ZeroDivisionError"
    ELSE IF (mass > 0 /\ ref < 0) \/ (mass < 0 /\ ref > 0) \/ mass = 0
         THEN "ValueError"
    ELSE "none"

\* (mutant) log(mass) / log(phi): the mass is not divided by the reference
LogPhiOfMass(mass, ref) == Rat(LnMicro[mass], LnPhiMicro)

\* log(mass/m_e) / log(phi) when nothing is raised: the quotient is formed
\* first, the logarithm taken of it
LogPhi(mass, ref) ==
    LET quotient == FDiv(Rat(mass, 1), Rat(ref, 1))
    IN  Rat(LnInt(quotient.num) - LnInt(quotient.den), LnPhiMicro)

\* round(n * 4) / 4
Quantized(n) == RatOver(Rat(Round(RatTimes(n, 4)), 1), 4)

\* n_quantized * 4
TimesFour(nq) == RatTimes(nq, 4)

\* lines 34-36 of model_builder_clean.py for one mass and one reference
Quantizer(mass, ref) ==
    LET n == LogPhi(mass, ref)
        n_quantized == Quantized(n)
    IN  [n_raw |-> n, n_quantized |-> n_quantized, q |-> TimesFour(n_quantized)]

----------------------------------------------------------------------------
(* The particles table the loaders read                                    *)

StoreNames == <<"electron", "muon", "tau">>

\* masses are whole numbers of a mass unit, from -NegMasses to MaxMass
NegMasses == 1
MaxMass == 5

MassValues == (0 - NegMasses)..MaxMass

\* 0.0005109989461, the reference focused_a5_analysis falls back to (line 18),
\* in mass units
DefaultRef == 2

\* a table: some of the names, each with its mass_gev
Stores ==
    UNION {[S -> MassValues] : S \in SUBSET {StoreNames[i] : i \in 1..Len(StoreNames)}}

\* what the n_value column holds: NULL everywhere; what setup_database
\* stored (focused_a5_complete.py line 102); or other stored numbers
NModes == {"null", "setup", "stored"}

Rank(name) == CHOOSE i \in 1..Len(StoreNames) : StoreNames[i] = name

\* the n_value cell of a row: [null |-> TRUE] or a number
NValue(st, mode, name) ==
    IF mode = "setup" /\ "electron" \in DOMAIN st
       /\ LogRaises(st[name], st["electron"]) = "none"
    THEN [null |-> FALSE, v |-> LogPhi(st[name], st["electron"])]
    ELSE IF mode = "stored"
    THEN [null |-> FALSE, v |-> Rat(Rank(name), 8)]
    ELSE [null |-> TRUE, v |-> Rat(0, 1)]

RECURSIVE Sorted(_, _)
\* the rows named in S, ORDER BY mass_gev (equal masses in table order)
Sorted(st, S) ==
    IF S = {} THEN <<>>
    ELSE LET first == CHOOSE x \in S : \A y \in S :
                          \/ st[x] < st[y]
                          \/ st[x] = st[y] /\ Rank(x) <= Rank(y)
         IN  <<first>> \o Sorted(st, S \ {first})

\* SELECT ... FROM particles WHERE mass_gev > 0 ORDER BY mass_gev
Query(st, mode) ==
    LET hit == {x \in DOMAIN st : st[x] > 0}
        order == Sorted(st, hit)
    IN  [i \in 1..Len(order) |->
            [name |-> order[i], mass |-> st[order[i]],
             n_db |-> NValue(st, mode, order[i])]]

----------------------------------------------------------------------------
(* The loaders                                                             *)

\* the loaders that quantize
LoaderScripts ==
    {"model_builder_clean", "focused_a5_analysis", "focused_a5_complete",
     "golden_modular_analysis"}

\* casimir_model.load_particle_data keeps q = 4 * n as it is
RawLoaders == {"casimir_model"}

\* the load_data functions that take q from the dictionary exact_q
ExactQLoaders == {"definitive_a5_model_fixed", "neutrino_a5_model"}

\* a5_casimir_ratio.load_data_with_exact_q looks the name up in a dictionary
\* and rounds 4 * n for a name it has no key for
LookupLoaders == {"a5_casimir_ratio"}

Loaders == LoaderScripts \cup RawLoaders \cup ExactQLoaders \cup LookupLoaders

\* exact_q, definitive_a5_model_fixed.py lines 20-25 (the same dictionary at
\* neutrino_a5_model.py lines 20-25)
exact_q ==
    [electron_neutrino |-> -224, muon_neutrino |-> -180, tau_neutrino |-> -162,
     electron |-> 0, up_quark |-> 12, down_quark |-> 18, strange_quark |-> 44,
     muon |-> 44, charm_quark |-> 65, tau |-> 68, bottom_quark |-> 75,
     top_quark |-> 106, W_boson |-> 100, Z_boson |-> 100, higgs_boson |-> 103]

\* the names of the tables the exact_q loaders are run on, in table order;
\* "proton" is a particle exact_q has no key for
ExactStoreNames == <<"electron", "proton", "muon">>

ExactStores ==
    UNION {[S -> MassValues] :
              S \in SUBSET {ExactStoreNames[i] : i \in 1..Len(ExactStoreNames)}}

\* SELECT ... FROM particles WHERE mass_gev > 0 (no ORDER BY: table order)
QueryUnordered(st) ==
    LET hit == {i \in 1..Len(ExactStoreNames) :
                   ExactStoreNames[i] \in DOMAIN st /\ st[ExactStoreNames[i]] > 0}
        F[i \in 0..Len(ExactStoreNames)] ==
            IF i = 0 THEN <<>>
            ELSE IF i \in hit
                 THEN Append(F[i - 1], [name |-> ExactStoreNames[i],
                                        mass |-> st[ExactStoreNames[i]]])
                 ELSE F[i - 1]
    IN  F[Len(ExactStoreNames)]

\* SELECT ... FROM particles WHERE mass_gev > 0 ORDER BY mass_gev, on a
\* table of ExactStores (equal masses in table order)
QueryOrdered(st) ==
    LET found_rows == QueryUnordered(st)
        place(i) ==
            Cardinality({j \in 1..Len(found_rows) :
                            \/ found_rows[j].mass < found_rows[i].mass
                            \/ found_rows[j].mass = found_rows[i].mass /\ j <= i})
    IN  [p \in 1..Len(found_rows) |->
            found_rows[CHOOSE i \in 1..Len(found_rows) : place(i) = p]]

\* the rows the cursor of a loader delivers
RowsOf(sc, st, mode) ==
    IF sc \in ExactQLoaders THEN QueryUnordered(st)
    ELSE IF sc \in LookupLoaders THEN QueryOrdered(st)
    ELSE Query(st, mode)

\* "SELECT mass_gev ... WHERE name='electron'" and what is made of the row:
\* fetchone()[0] (TypeError on no row), or the fallback of
\* focused_a5_analysis line 18; golden_modular_analysis reads no row and
\* sets m_e = 0.0005109989461 (line 25)
Reference(sc, st) ==
    IF sc = "golden_modular_analysis"
    THEN [raises |-> "none", m_e |-> DefaultRef]
    ELSE IF "electron" \in DOMAIN st
    THEN [raises |-> "none", m_e |-> st["electron"]]
    ELSE IF sc = "focused_a5_analysis"
    THEN [raises |-> "none", m_e |-> DefaultRef]
    ELSE [raises |-> "TypeError", m_e |-> 0]

\* model_builder_clean.py lines 34-45: the record appended for a row (n_raw
\* is the local n of line 34, kept beside the fields of the dictionary)
BuilderRecord(row, ref) ==
    LET n == LogPhi(row.mass, ref)
        n_quantized == Quantized(n)
        qv == TimesFour(n_quantized)
    IN  [name |-> row.name, mass |-> row.mass, n_raw |-> n,
         n |-> n_quantized, q |-> qv]

\* focused_a5_analysis.py lines 33-50, focused_a5_complete.py lines 155-167:
\* the record appended for a row whose exponent is n
FocusedRecord(row, n) ==
    LET n_quantized == Quantized(n)
    IN  [name |-> row.name, mass |-> row.mass, n_raw |-> n,
         n_quantized |-> n_quantized, k |-> TimesFour(n_quantized)]

\* casimir_model.py lines 37-46: the record appended for a row
CasimirRecord(row, ref) ==
    LET n == LogPhi(row.mass, ref)
    IN  [name |-> row.name, mass |-> row.mass, n |-> n, q |-> RatTimes(n, 4)]

\* definitive_a5_model_fixed.py lines 53-63, neutrino_a5_model.py lines 31-34
ExactQRecord(row) ==
    [name |-> row.name, mass |-> row.mass, q |-> exact_q[row.name],
     n |-> Rat(exact_q[row.name], 4)]

\* exact_q_values, a5_casimir_ratio.py lines 35-51
exact_q_values ==
    [electron |-> 0, electron_neutrino |-> -224, muon_neutrino |-> -180,
     tau_neutrino |-> -162, up_quark |-> 12, down_quark |-> 18,
     strange_quark |-> 44, charm_quark |-> 65, bottom_quark |-> 75,
     top_quark |-> 106, muon |-> 44, tau |-> 68, W_boson |-> 100,
     Z_boson |-> 100, higgs_boson |-> 103]

\* a5_casimir_ratio.py lines 62-72: the record appended for a row, with
\* q = exact_q_values.get(name, round(4 * n))
LookupRecord(row, ref) ==
    LET n == LogPhi(row.mass, ref)
    IN  [name |-> row.name, mass |-> row.mass, n |-> n,
         q |-> IF row.name \in DOMAIN exact_q_values
               THEN Rat(exact_q_values[row.name], 1)
               ELSE Rat(Round(RatTimes(n, 4)), 1)]

\* the body of the loop over the cursor, for one row: what it raises and
\* the records it appends
LoadBody(sc, row, ref) ==
    CASE sc = "model_builder_clean" ->
           IF LogRaises(row.mass, ref) # "none"
           THEN [raises |-> LogRaises(row.mass, ref), add |-> <<>>]
           ELSE [raises |-> "none", add |-> <<BuilderRecord(row, ref)>>]
      [] sc = "focused_a5_analysis" ->
           IF row.mass <= 0 \/ LogRaises(row.mass, ref) # "none"
           THEN [raises |-> "none", add |-> <<>>]
           ELSE [raises |-> "none",
                 add |-> <<FocusedRecord(row, LogPhi(row.mass, ref))>>]
      [] sc = "focused_a5_complete" ->
           IF row.mass <= 0 THEN [raises |-> "none", add |-> <<>>]
           ELSE IF ~row.n_db.null
           THEN [raises |-> "none", add |-> <<FocusedRecord(row, row.n_db.v)>>]
           ELSE IF LogRaises(row.mass, ref) # "none"
           THEN [raises |-> LogRaises(row.mass, ref), add |-> <<>>]
           ELSE [raises |-> "none",
                 add |-> <<FocusedRecord(row, LogPhi(row.mass, ref))>>]
      [] sc = "golden_modular_analysis" ->
           IF row.mass <= 0 THEN [raises |-> "none", add |-> <<>>]
           ELSE IF LogRaises(row.mass, ref) # "none"
           THEN [raises |-> LogRaises(row.mass, ref), add |-> <<>>]
           ELSE [raises |-> "none",
                 add |-> <<FocusedRecord(row, LogPhi(row.mass, ref))>>]
      [] sc = "casimir_model" ->
           IF LogRaises(row.mass, ref) # "none"
           THEN [raises |-> LogRaises(row.mass, ref), add |-> <<>>]
           ELSE [raises |-> "none", add |-> <<CasimirRecord(row, ref)>>]
      [] sc \in LookupLoaders ->
           IF LogRaises(row.mass, ref) # "none"
           THEN [raises |-> LogRaises(row.mass, ref), add |-> <<>>]
           ELSE [raises |-> "none", add |-> <<LookupRecord(row, ref)>>]
      [] sc \in ExactQLoaders ->
           IF row.name \notin DOMAIN exact_q
           THEN [raises |-> "KeyError", add |-> <<>>]
           ELSE [raises |-> "none", add |-> <<ExactQRecord(row)>>]

\* particles[:15], focused_a5_complete.py line 251
ShownRows == 15

\* |k - round(k)| < 0.001, focused_a5_complete.py lines 253-258
PerfectMatch(p) ==
    LET k_int == Round(p.k)
        error == RatAbs(RatMinus(p.k, Rat(k_int, 1)))
    IN  RatLess(error, Rat(1, 1000))

RECURSIVE CountMatches(_, _, _)
\* the loop of lines 250-264 over the first `upto` records, from record i on
CountMatches(ps, i, upto) ==
    IF i > upto THEN 0
    ELSE (IF PerfectMatch(ps[i]) THEN 1 ELSE 0) + CountMatches(ps, i + 1, upto)

InitLoad ==
    /\ IdleDecomp
    /\ IdleTables
    /\ IdleUnit
    /\ IdleFiles
    /\ script \in Loaders
    /\ pc = "reference"
    /\ store \in (IF script \in ExactQLoaders \cup LookupLoaders
                  THEN ExactStores ELSE Stores)
    /\ n_mode \in (IF script = "focused_a5_complete" THEN NModes ELSE {"null"})
    /\ m_e = 0
    /\ rows = <<>>
    /\ particles = <<>>
    /\ raised = "none"
    /\ perfect_matches = <<0, 0>>

\* the reference is fetched and the query for the rows is run
FetchReference ==
    /\ script \in Loaders
    /\ pc = "reference"
    /\ \E r \in {Reference(script, store)} :
           IF r.raises # "none"
           THEN /\ raised' = r.raises
                /\ pc' = "raised"
                /\ UNCHANGED <<m_e, rows>>
           ELSE /\ m_e' = r.m_e
                /\ rows' = RowsOf(script, store, n_mode)
                /\ pc' = "rows"
                /\ UNCHANGED raised
    /\ UNCHANGED fileVars
    /\ UNCHANGED <<script, store, n_mode, particles, perfect_matches,
                   decompVars, tableVars, unitVars>>

\* one turn of "for ... in cursor.fetchall()"
LoadRow ==
    /\ script \in Loaders
    /\ pc = "rows"
    /\ rows # <<>>
    /\ \E r \in {LoadBody(script, Head(rows), m_e)} :
           IF r.raises # "none"
           THEN /\ raised' = r.raises
                /\ pc' = "raised"
                /\ UNCHANGED <<rows, particles>>
           ELSE /\ particles' = particles \o r.add
                /\ rows' = Tail(rows)
                /\ UNCHANGED <<raised, pc>>
    /\ UNCHANGED fileVars
    /\ UNCHANGED <<script, store, n_mode, m_e, perfect_matches, decompVars,
                   tableVars, unitVars>>

\* the cursor is exhausted: the loader returns particles, m_e
LoadReturn ==
    /\ script \in Loaders
    /\ pc = "rows"
    /\ rows = <<>>
    /\ pc' = IF script = "focused_a5_complete" THEN "loaded" ELSE "done"
    /\ UNCHANGED fileVars
    /\ UNCHANGED <<script, decompVars, tableVars, loadVars, unitVars>>

\* focused_a5_complete.analyze_empirical_patterns, lines 250-266: the
\* quantization check over particles[:15] and its "Perfect integer matches"
QuantizationCheck ==
    /\ script = "focused_a5_complete"
    /\ pc = "loaded"
    /\ LET shown == Min(ShownRows, Len(particles))
       IN  perfect_matches' = <<CountMatches(particles, 1, shown), shown>>
    /\ pc' = "done"
    /\ UNCHANGED fileVars
    /\ UNCHANGED <<script, store, n_mode, m_e, rows, particles, raised,
                   decompVars, tableVars, unitVars>>

NextScripts ==
    \/ TableStep \/ TableDone
    \/ FetchReference \/ LoadRow \/ LoadReturn \/ QuantizationCheck

InitScripts == InitTables \/ InitLoad

SpecScripts == InitScripts /\ [][NextScripts]_vars

----------------------------------------------------------------------------
(* Functions applied on their own                                          *)

\* the factors k a mass and its reference are rescaled by
ScaleFactors == {2, 3, 4, 5}

IdleScript ==
    /\ IdleDecomp
    /\ IdleTables
    /\ IdleLoad
    /\ IdleFiles

\* integer-valued float x * y of two integer-valued floats
Product(x, y) == FMul(Rat(x, 1), Rat(y, 1)).num

InitQuantizer ==
    /\ IdleScript
    /\ script = "quantizer"
    /\ pc = "call"
    /\ args \in [mass : 1..MaxMass, reference : 1..MaxMass, k : ScaleFactors]
    /\ result = <<>>

\* the quantizer is applied to (mass, reference) and to (k*mass, k*reference)
ApplyQuantizer ==
    /\ script = "quantizer"
    /\ pc = "call"
    /\ result' = [plain |-> Quantizer(args.mass, args.reference),
                  scaled |-> Quantizer(Product(args.k, args.mass),
                                       Product(args.k, args.reference))]
    /\ pc' = "done"
    /\ UNCHANGED fileVars
    /\ UNCHANGED <<script, args, decompVars, tableVars, loadVars>>

(* n_value_analysis.py: the quantizer on the masses of the file             *)

\* masses, lines 11-24, in units of 1e-7 GeV
masses ==
    [e |-> 5110, mu |-> 1056584, tau |-> 17768600, u |-> 21600, d |-> 46700,
     s |-> 930000, c |-> 12700000, b |-> 41800000, t |-> 1727600000,
     W |-> 803770000, Z |-> 911876000, H |-> 1252500000]

RECURSIVE Halve(_, _)
\* r = m * 2^e with 1000 <= m < 2000: the pair <<m, e>>
Halve(r, e) == IF r >= 2000 THEN Halve(r \div 2, e + 1) ELSE <<r, e>>

\* log(mass / ref) for mass >= ref, in units of 1e-4: the quotient in
\* thousandths, reduced to [1, 2), log(m) = 2 atanh((m-1)/(m+1)) by its
\* series, and log(2) = 0.6931 for each halving
LogOfRatio(mass, ref) ==
    LET quotient == (mass \div ref) * 1000 + ((mass % ref) * 1000) \div ref
        h == Halve(quotient, 0)
        z == ((h[1] - 1000) * 10000) \div (h[1] + 1000)
        z2 == (z * z) \div 10000
        z3 == (z2 * z) \div 10000
        z5 == (z3 * z2) \div 10000
    IN  h[2] * 6931 + 2 * (z + z3 \div 3 + z5 \div 5)

\* (mutant) log(mass / ref), not divided by log(phi)
LogOnly(mass, ref) == Rat(LogOfRatio(mass, ref), 10000)

\* line 36: n = log(mass / masses['e']) / log(phi), log(phi) = 0.4812
LogPhiOfRatio(mass, ref) == Rat(LogOfRatio(mass, ref), 4812)

InitNValues ==
    /\ IdleScript
    /\ script = "n_value_analysis"
    /\ pc = "call"
    /\ args \in [name : DOMAIN masses \ {"e"}]
    /\ result = <<>>

\* lines 33-41: one turn of the loop, for the particle args.name
NValueRow ==
    /\ script = "n_value_analysis"
    /\ pc = "call"
    /\ LET n == LogPhiOfRatio(masses[args.name], masses["e"])
       IN  result' = [name |-> args.name, n |-> n, n_rounded |-> Quantized(n)]
    /\ pc' = "done"
    /\ UNCHANGED fileVars
    /\ UNCHANGED <<script, args, decompVars, tableVars, loadVars>>

(* model_builder_clean.py: assign_a5_representations and fit_model          *)

\* (mutant) the remainder with the sign of the dividend
TruncMod(x, m) == IF x >= 0 THEN x % m ELSE -((-x) % m)

\* x % m of Python for integers, m > 0: the result is in 0..m-1
PyMod(x, m) == x % m

\* 'neutrino' in name
IsNeutrino(name) ==
    name \in {"electron_neutrino", "muon_neutrino", "tau_neutrino"}

\* lines 62-112: the assignment appended for the particle p
AssignRepresentation(p) ==
    LET qv == p.q
        chosen ==
          IF p.name = "electron" THEN [dim |-> 1, weights |-> <<0>>, w |-> 0]
          ELSE IF IsNeutrino(p.name)
          THEN [dim |-> 1, weights |-> <<0>>, w |-> 0]
          ELSE IF p.category = "quark"
          THEN [dim |-> 3, weights |-> <<-1, 0, 1>>, w |-> PyMod(qv, 3) - 1]
          ELSE IF p.category = "lepton" /\ p.name # "electron"
          THEN LET w_mod == PyMod(qv, 4)
               IN  [dim |-> 4, weights |-> <<-3, -1, 1, 3>>,
                    w |-> IF w_mod = 0 THEN -3
                          ELSE IF w_mod = 1 THEN -1
                          ELSE IF w_mod = 2 THEN 1 ELSE 3]
          ELSE LET w_mod == PyMod(qv, 5)
               IN  [dim |-> 5, weights |-> <<-2, -1, 0, 1, 2>>,
                    w |-> IF w_mod = 0 THEN -2
                          ELSE IF w_mod = 1 THEN -1
                          ELSE IF w_mod = 2 THEN 0
                          ELSE IF w_mod = 3 THEN 1 ELSE 2]
    IN  [name |-> p.name, dim |-> chosen.dim, w |-> chosen.w,
         weights |-> chosen.weights, q |-> p.q, n |-> p.n]

\* assign_a5_representations: the list of assignments, in the order of the
\* particles
AssignAll(ps) == [i \in 1..Len(ps) |-> AssignRepresentation(ps[i])]

\* the inner product of two rows of three numbers
Dot(u, v) ==
    RatPlus(RatProd(u[1], v[1]), RatPlus(RatProd(u[2], v[2]), RatProd(u[3], v[3])))

\* c * v for a number c and a row v
Times(c, v) == [i \in 1..3 |-> RatProd(c, v[i])]

\* np.linalg.lstsq(X, y, rcond=None)[0] for at most two rows of three
\* columns: the least-squares solution of minimal norm (zeros for no row)
Lstsq(X, y) ==
    IF Len(X) = 0 THEN [i \in 1..3 |-> Rat(0, 1)]
    ELSE IF Len(X) = 1 THEN Times(RatQuot(y[1], Dot(X[1], X[1])), X[1])
    ELSE IF X[1] = X[2]
    THEN Times(RatQuot(RatOver(RatPlus(y[1], y[2]), 2), Dot(X[1], X[1])), X[1])
    ELSE LET g11 == Dot(X[1], X[1])
             g12 == Dot(X[1], X[2])
             g22 == Dot(X[2], X[2])
             det == RatMinus(RatProd(g11, g22), RatProd(g12, g12))
             l1 == RatQuot(RatMinus(RatProd(g22, y[1]), RatProd(g12, y[2])), det)
             l2 == RatQuot(RatMinus(RatProd(g11, y[2]), RatProd(g12, y[1])), det)
             u == Times(l1, X[1])
             v == Times(l2, X[2])
         IN  [i \in 1..3 |-> RatPlus(u[i], v[i])]

RECURSIVE RatSum(_, _)
\* the sum of the numbers xs[i..]
RatSum(xs, i) == IF i > Len(xs) THEN Rat(0, 1) ELSE RatPlus(xs[i], RatSum(xs, i + 1))

\* fit_model, lines 130-178
fit_model(assignments) ==
    LET X == [i \in 1..Len(assignments) |->
                 <<Rat(assignments[i].dim, 1), Rat(assignments[i].w, 1), Rat(1, 1)>>]
        n_values == [i \in 1..Len(assignments) |-> assignments[i].n]
        params == Lstsq(X, n_values)
        n_pred == [i \in 1..Len(assignments) |-> Dot(params, X[i])]
        errors == [i \in 1..Len(assignments) |->
                      RatAbs(RatMinus(n_pred[i], assignments[i].n))]
        q_pred == [i \in 1..Len(assignments) |-> RatTimes(n_pred[i], 4)]
        q_errors == [i \in 1..Len(assignments) |->
                        RatAbs(RatMinus(q_pred[i], Rat(assignments[i].q, 1)))]
    IN  IF Len(assignments) = 0
        THEN [raises |-> "ZeroDivisionError"]
        ELSE LET avg_q_error == RatOver(RatSum(q_errors, 1), Len(assignments))
             IN  [raises |-> "none",
                  alpha |-> params[1], beta |-> params[2], gamma |-> params[3],
                  q_pred |-> q_pred,
                  avg_error |-> RatOver(RatSum(errors, 1), Len(assignments)),
                  avg_q_error |-> avg_q_error,
                  near_integers |-> RatLess(avg_q_error, Rat(1, 10))]

\* the particles the functions are applied to: name and category
ParticleKinds ==
    {<<"electron", "lepton">>, <<"electron_neutrino", "lepton">>,
     <<"up_quark", "quark">>, <<"top_quark", "quark">>, <<"muon", "lepton">>,
     <<"W_boson", "boson">>, <<"higgs_boson", "scalar">>}

\* their integer codes q, from -MaxCode to MaxCode
MaxCode == 6

BuilderParticles ==
    {[name |-> k[1], category |-> k[2], q |-> c, n |-> Rat(c, 4)] :
        k \in ParticleKinds, c \in (0 - MaxCode)..MaxCode}

\* the lists of fewer particles than the three coefficients of a fit
FewOf(S) == {<<>>} \cup {<<x>> : x \in S} \cup {<<x, y>> : x \in S, y \in S}

InitBuilder ==
    /\ IdleScript
    /\ script = "fit_model"
    /\ pc = "assign"
    /\ args \in FewOf(BuilderParticles)
    /\ result = <<>>

\* assignments = assign_a5_representations(particles)
Assign ==
    /\ script = "fit_model"
    /\ pc = "assign"
    /\ result' = [assignments |-> AssignAll(args)]
    /\ pc' = "fit"
    /\ UNCHANGED fileVars
    /\ UNCHANGED <<script, args, decompVars, tableVars, loadVars>>

\* alpha, beta, gamma, avg_error, avg_q_error = fit_model(assignments)
Fit ==
    /\ script = "fit_model"
    /\ pc = "fit"
    /\ \E r \in {fit_model(result.assignments)} :
           /\ result' = [assignments |-> result.assignments, fit |-> r]
           /\ pc' = IF r.raises = "none" THEN "done" ELSE "raised"
    /\ UNCHANGED fileVars
    /\ UNCHANGED <<script, args, decompVars, tableVars, loadVars>>

(* casimir_model.py: fit_casimir_model                                     *)

\* casimir_eigenvalue(dim) = (dim**2 - 1) / 12.0
casimir_eigenvalue(dim) == Rat(dim * dim - 1, 12)

\* x % m of Python for a real x and an integer m > 0: in [0, m)
PyModReal(x, m) == RatMinus(x, Rat(m * (x.num \div (x.den * m)), 1))

\* lines 59-93: the assignment appended for the particle p
CasimirAssignment(p) ==
    LET chosen ==
          IF IsNeutrino(p.name) THEN [dim |-> 1, w |-> 0]
          ELSE IF p.name = "electron" THEN [dim |-> 3, w |-> -1]
          ELSE IF p.category = "quark" /\ p.name # "top_quark"
          THEN [dim |-> 3, w |-> Round(PyModReal(p.q, 3)) - 1]
          ELSE IF p.name \in {"muon", "tau"} THEN [dim |-> 4, w |-> -3]
          ELSE IF p.category = "boson" THEN [dim |-> 4, w |-> 3]
          ELSE IF p.name = "top_quark" THEN [dim |-> 5, w |-> -2]
          ELSE [dim |-> 3, w |-> 0]
    IN  [name |-> p.name, q_actual |-> p.q, dim |-> chosen.dim, w |-> chosen.w,
         C |-> casimir_eigenvalue(chosen.dim)]

RECURSIVE CountNear(_, _)
\* lines 121-123: how many of q_pred[i..] are within 0.1 of round(q_pred)
CountNear(q_pred, i) ==
    IF i > Len(q_pred) THEN 0
    ELSE (IF RatLess(RatAbs(RatMinus(q_pred[i], Rat(Round(q_pred[i]), 1))),
                     Rat(1, 10))
          THEN 1 ELSE 0) + CountNear(q_pred, i + 1)

\* fit_casimir_model, lines 56-136
fit_casimir_model(ps) ==
    LET assignments == [i \in 1..Len(ps) |-> CasimirAssignment(ps[i])]
        X == [i \in 1..Len(ps) |->
                 <<assignments[i].C, Rat(assignments[i].w, 1), Rat(1, 1)>>]
        q_vals == [i \in 1..Len(ps) |-> assignments[i].q_actual]
        params == Lstsq(X, q_vals)
        q_pred == [i \in 1..Len(ps) |-> Dot(params, X[i])]
        errors == [i \in 1..Len(ps) |->
                      RatAbs(RatMinus(q_pred[i], assignments[i].q_actual))]
    IN  IF Len(ps) = 0
        THEN [raises |-> "ZeroDivisionError", assignments |-> assignments]
        ELSE [raises |-> "none",
              a |-> params[1], b |-> params[2], c |-> params[3],
              assignments |-> assignments,
              q_pred |-> q_pred,
              integer_matches |-> CountNear(q_pred, 1),
              avg_error |-> RatOver(RatSum(errors, 1), Len(ps))]

\* the particles of casimir_model: q = 4 * n is not rounded; here the
\* quarters from -MaxCode/4 to 2*MaxCode/4
CasimirParticles ==
    {[name |-> k[1], category |-> k[2], q |-> Rat(c, 4)] :
        k \in ParticleKinds, c \in (0 - MaxCode)..(2 * MaxCode)}

InitCasimir ==
    /\ IdleScript
    /\ script = "fit_casimir_model"
    /\ pc = "fit"
    /\ args \in FewOf(CasimirParticles)
    /\ result = <<>>

\* a, b, c, assignments, avg_error = fit_casimir_model(particles)
FitCasimir ==
    /\ script = "fit_casimir_model"
    /\ pc = "fit"
    /\ \E r \in {fit_casimir_model(args)} :
           /\ result' = [assignments |-> r.assignments, fit |-> r]
           /\ pc' = IF r.raises = "none" THEN "done" ELSE "raised"
    /\ UNCHANGED fileVars
    /\ UNCHANGED <<script, args, decompVars, tableVars, loadVars>>

(* digital_root: fibonacci_digital_root_analysis.py lines 11-15, and the   *)
(* closed form of focused_a5_complete.py lines 273-276 and                 *)
(* golden_modular_analysis.py lines 165-168                                *)

\* the largest number the digital roots are taken of
MaxRoot == 1200

RECURSIVE DigitSum(_)
\* sum(int(d) for d in str(n)), n >= 0
DigitSum(n) == IF n < 10 THEN n ELSE (n % 10) + DigitSum(n \div 10)

RECURSIVE digital_root(_)
\* while n >= 10: n = sum(int(d) for d in str(n)); return n
digital_root(n) == IF n >= 10 THEN digital_root(DigitSum(n)) ELSE n

\* (mutant) the remainder of n by 9
RemainderByNine(n) == n % 9

\* if n == 0: return 0; return 1 + ((n - 1) % 9)
digital_root_closed(n) == IF n = 0 THEN 0 ELSE 1 + ((n - 1) % 9)

InitDigitalRoot ==
    /\ IdleScript
    /\ script = "digital_root"
    /\ pc = "call"
    /\ args \in [n : 0..MaxRoot]
    /\ result = <<>>

\* both functions are applied to n
ApplyDigitalRoot ==
    /\ script = "digital_root"
    /\ pc = "call"
    /\ result' = [iterative |-> digital_root(args.n),
                  closed |-> digital_root_closed(args.n)]
    /\ pc' = "done"
    /\ UNCHANGED fileVars
    /\ UNCHANGED <<script, args, decompVars, tableVars, loadVars>>

InitUnits ==
    InitQuantizer \/ InitNValues \/ InitBuilder \/ InitCasimir \/ InitDigitalRoot

NextUnits ==
    ApplyQuantizer \/ NValueRow \/ Assign \/ Fit \/ FitCasimir \/ ApplyDigitalRoot

SpecUnits == InitUnits /\ [][NextUnits]_vars

----------------------------------------------------------------------------
(* Declarative vocabulary for the decomposer's properties                  *)

\* the boxes the two searches are meant to cover, [-30,30]x[-20,20]x[-10,10]
\* and [-10,10]^3
BestBox ==
    (BestALo..(BestAHi - 1)) \X (BestBLo..(BestBHi - 1)) \X (BestCLo..(BestCHi - 1))

RepBox == (RepLo..(RepHi - 1)) \X (RepLo..(RepHi - 1)) \X (RepLo..(RepHi - 1))

Residual(qq, t) == Abs(qq - Combination(t[1], t[2], t[3]))

ExactIn(box, qq) == {t \in box : Combination(t[1], t[2], t[3]) = qq}

\* the least residual any triple of the box attains
MinResidual(box, qq) ==
    LET rs == {Residual(qq, t) : t \in box}
    IN  CHOOSE m \in rs : \A x \in rs : m <= x

Minimisers(box, qq) ==
    LET m == MinResidual(box, qq)
    IN  {t \in box : Residual(qq, t) = m}

Weight(t) == Abs(t[1]) + Abs(t[2]) + Abs(t[3])

\* t comes before u (or is u) when a ascends, then b, then c
LexLE(t, u) ==
    \/ t[1] < u[1]
    \/ t[1] = u[1] /\ t[2] < u[2]
    \/ t[1] = u[1] /\ t[2] = u[2] /\ t[3] <= u[3]

LexFirst(ts) == CHOOSE t \in ts : \A u \in ts : LexLE(t, u)

\* t is enumerated before u (or is u) when the axes run as the ranges o say
Before(o, t, u) ==
    \/ o[1].step * t[1] < o[1].step * u[1]
    \/ t[1] = u[1] /\ o[2].step * t[2] < o[2].step * u[2]
    \/ t[1] = u[1] /\ t[2] = u[2] /\ o[3].step * t[3] <= o[3].step * u[3]

FirstIn(o, ts) == CHOOSE t \in ts : \A u \in ts : Before(o, t, u)

PairBox == (PairLo..(PairHi - 1)) \X (PairLo..(PairHi - 1))

ExactPairs(qq) == {t \in PairBox : PairAlpha * t[1] + PairBeta * t[2] = qq}

Elements(s) == {s[i] : i \in 1..Len(s)}

Triple(cf) == <<cf[1], cf[2], cf[3]>>

----------------------------------------------------------------------------
\* C1: completeness of the all-representations search.  When the search of
\* lines 104-119 has finished for the target q, every triple (a,b,c) of its box
\* [-10,10]^3 with 8a+15b+24c = q is in the list `representations`, with d = 0.
C1_Completeness ==
    script = "q_pattern_analysis" /\ pc = "done" =>
        LET listed == Elements(representations)
        IN  \A t \in ExactIn(RepBox, q) : <<t[1], t[2], t[3], 0>> \in listed

\* C1 witness: a finished search whose list holds several exact triples,
\* among them one on the upper edge of the box (c = 10).
C1_Witness ==
    /\ script = "q_pattern_analysis"
    /\ pc = "done"
    /\ Cardinality(ExactIn(RepBox, q)) > 1
    /\ \E t \in ExactIn(RepBox, q) :
           t[3] = RepHi - 1 /\ <<t[1], t[2], t[3], 0>> \in Elements(representations)

----------------------------------------------------------------------------
----------------------------------------------------------------------------
\* C3 (as claimed): whenever more than one triple (pair) of the search box
\* reproduces q exactly, the finished search has reported all of them or has
\* reported that several exist (the all-representations line does, through
\* its count); the 3a+4b search prints lines for pairs only.
C3_NonUniquenessReported ==
    /\ script = "q_pattern_analysis" /\ pc = "done" =>
           LET exact == ExactIn(BestBox, q)
               named == {Triple(printed_fit[1].coeffs)}
                          \cup {Triple(r) : r \in Elements(representations)}
           IN  Cardinality(exact) > 1 =>
                   \/ exact \subseteq named
                   \/ printed_reps # <<>> /\ printed_reps[1].count > 1
    /\ script = "quantum_number_analysis" /\ pc = "done" =>
           LET exact == ExactPairs(q)
               named == {<<l.a, l.b>> : l \in Elements(printed_pairs)}
           IN  Cardinality(exact) > 1 => exact \subseteq named

----------------------------------------------------------------------------
----------------------------------------------------------------------------
----------------------------------------------------------------------------
(* setup_minimal.py, line 17: the line scripts/verify.py prints            *)
VerifyElectronLine == [a |-> -30, b |-> 0, c |-> 10, q |-> 0]

\* C6: the best-fit search run for the electron (q = 0) ends with
\* (a,b,c) = (-30,0,10) and d = 0, an exact hit of the box, the triple that
\* scripts/verify.py states for the electron.
C6_ElectronScenario ==
    script = "q_pattern_analysis" /\ pc = "done" /\ q = q_values["electron"] =>
        /\ q = 0
        /\ printed_fit[1].coeffs = <<-30, 0, 10, 0>>
        /\ printed_fit[1].error = 0
        /\ <<-30, 0, 10>> \in ExactIn(BestBox, q)
        /\ Triple(printed_fit[1].coeffs)
             = <<VerifyElectronLine.a, VerifyElectronLine.b, VerifyElectronLine.c>>
        /\ printed_fit[1].q_calc = VerifyElectronLine.q

\* C6 witness: the electron's search has finished and printed its fit.
C6_Witness ==
    /\ script = "q_pattern_analysis"
    /\ pc = "done"
    /\ q = q_values["electron"]
    /\ printed_fit # <<>>
    /\ Cardinality(ExactIn(BestBox, q)) > 1

----------------------------------------------------------------------------
\* C7: every row printed by find_integer_coefficients and by the verification
\* loop of find_simple_rules has 8a+15b+24c equal to the exact q listed for
\* its particle and is marked as matching; every row verify_simple and
\* coefficient_patterns compute for a particle has that same q.
C7_ExactCoefficients ==
    script \in TableScripts \ {"complete_paper"} =>
        \A i \in 1..Len(printed_rows) :
            LET r == printed_rows[i]
            IN  /\ r.q_calc = Lookup(actual_q, r.name).q
                /\ r.q_calc = 8 * r.a + 15 * r.b + 24 * r.c
                /\ script \in {"definitive_find_integer_coefficients",
                               "definitive_find_simple_rules"}
                       => r.match /\ r.q = r.q_calc

\* C7 witness: find_simple_rules has walked all 15 particles, the heaviest
\* with a nonzero q among them.
C7_Witness ==
    /\ script = "definitive_find_simple_rules"
    /\ pc = "done"
    /\ Len(printed_rows) = 15
    /\ \E i \in 1..Len(printed_rows) :
           printed_rows[i].name = "top_quark" /\ printed_rows[i].q_calc = 106

----------------------------------------------------------------------------
\* C8 (as claimed): in every row of the paper's coefficient table, 8a+15b+24c
\* equals the q_calc printed in the row, the printed error is 0, and q_calc
\* equals the q the paper's q-value table prints for the same particle.
C8_PaperTableConsistent ==
    script = "complete_paper" =>
        \A i \in 1..Len(printed_rows) :
            LET r == printed_rows[i]
            IN  /\ 8 * r.a + 15 * r.b + 24 * r.c = r.q_calc
                /\ r.error = 0
                /\ r.q_calc = r.q

----------------------------------------------------------------------------
\* C9: every record a quantizing loader appends carries an integer code that
\* is within 1/2 of 4n, n being the exponent it quantized, and a quantized
\* exponent equal to that code over 4; and the quantization check of
\* focused_a5_complete counts as perfect matches all the rows it examines.
C9_IntegerCode ==
    script \in LoaderScripts =>
        /\ \A i \in 1..Len(particles) :
               LET p == particles[i]
                   code == IF script = "model_builder_clean" THEN p.q ELSE p.k
                   nq == IF script = "model_builder_clean" THEN p.n
                         ELSE p.n_quantized
                   off == RatAbs(RatMinus(code, RatTimes(p.n_raw, 4)))
               IN  /\ IsInteger(code)
                   /\ ~RatLess(Rat(1, 2), off)
                   /\ nq = RatOver(code, 4)
        /\ script = "focused_a5_complete" /\ pc = "done" =>
               /\ perfect_matches[1] = perfect_matches[2]
               /\ perfect_matches[2] = Min(ShownRows, Len(particles))

\* C9 witness: the check of focused_a5_complete has counted three rows, one
\* of which had an exponent off the quarter grid that was rounded up, and
\* one an exponent exactly half-way between two codes.
C9_Witness ==
    /\ script = "focused_a5_complete"
    /\ pc = "done"
    /\ perfect_matches = <<3, 3>>
    /\ \E i \in 1..Len(particles) :
           RatLess(RatTimes(particles[i].n_raw, 4), particles[i].k)
    /\ \E i \in 1..Len(particles) :
           RatAbs(RatMinus(particles[i].k, RatTimes(particles[i].n_raw, 4)))
               = Rat(1, 2)

----------------------------------------------------------------------------
\* C10: a record whose mass equals the reference mass m_e, its exponent being
\* computed from the mass, has n_raw = 0 and integer code 0.
C10_ReferenceMapsToZero ==
    (script \in LoaderScripts
       /\ (script = "focused_a5_complete" => n_mode # "stored"))
    => \A i \in 1..Len(particles) :
           LET p == particles[i]
               code == IF script = "model_builder_clean" THEN p.q ELSE p.k
           IN  p.mass = m_e => p.n_raw = Rat(0, 1) /\ code = Rat(0, 1)

\* C10 witness: focused_a5_analysis has loaded the electron, whose mass is
\* the reference and is not the mass unit, and a heavier particle with a
\* nonzero code.
C10_Witness ==
    /\ script = "focused_a5_analysis"
    /\ pc = "done"
    /\ m_e > 1
    /\ \E i \in 1..Len(particles) :
           /\ particles[i].name = "electron"
           /\ particles[i].mass = m_e
           /\ particles[i].k = Rat(0, 1)
    /\ \E i \in 1..Len(particles) : particles[i].k.num > 0

----------------------------------------------------------------------------
----------------------------------------------------------------------------
\* what a loader has shown its caller about the stored record `name`: the
\* exception it ended with, or a returned record marked as an error
Outcome(name) ==
    IF pc = "raised" THEN raised
    ELSE IF \E i \in 1..Len(particles) :
                particles[i].name = name /\ "error" \in DOMAIN particles[i]
         THEN "InvalidMassError"
    ELSE "none"

\* C12 (as claimed): when focused_a5_analysis or focused_a5_complete has
\* finished loading, every stored record with mass <= 0 has been rejected
\* with an InvalidMassError the caller can see for that record.
C12_InvalidMassRejected ==
    /\ script \in {"focused_a5_analysis", "focused_a5_complete"}
    /\ pc \in {"loaded", "done"}
    => \A name \in DOMAIN store :
           store[name] <= 0 => Outcome(name) = "InvalidMassError"

----------------------------------------------------------------------------
\* C13 (as claimed): a loader returns a particle list only when the electron
\* record is in the store with a mass > 0; otherwise loading has failed.
C13_ReferenceFatal ==
    /\ script \in {"focused_a5_analysis", "golden_modular_analysis"}
    /\ pc = "done"
    => "electron" \in DOMAIN store /\ store["electron"] > 0

----------------------------------------------------------------------------
\* C14 (as claimed): no loader ends with a raw ZeroDivisionError or
\* ValueError; a division by zero or a logarithm of a non-positive number is
\* surfaced as InvalidMassError.
C14_NoRawNumericFailure ==
    script \in {"model_builder_clean", "casimir_model"} =>
        /\ raised \notin {"ZeroDivisionError", "ValueError"}
        /\ pc = "raised" /\ "electron" \in DOMAIN store /\ store["electron"] <= 0
               => raised = "InvalidMassError"

----------------------------------------------------------------------------
\* C15 (as claimed): when an exact_q loader has stopped on a store that
\* holds the electron, it has returned, and the list it returned holds every
\* stored record with mass > 0 whose name has an entry in exact_q.
C15_PartialFailureTolerant ==
    /\ script \in ExactQLoaders
    /\ pc \in {"done", "raised"}
    /\ "electron" \in DOMAIN store
    => /\ pc = "done"
       /\ \A name \in DOMAIN store :
              store[name] > 0 /\ name \in DOMAIN exact_q
                  => \E i \in 1..Len(particles) : particles[i].name = name

----------------------------------------------------------------------------
----------------------------------------------------------------------------
\* the weight set of an A5 representation of dimension dim
WeightSet(dim) ==
    CASE dim = 1 -> {0}
      [] dim = 3 -> {-1, 0, 1}
      [] dim = 4 -> {-3, -1, 1, 3}
      [] dim = 5 -> {-2, -1, 0, 1, 2}
      [] OTHER -> {}

FitScripts == {"fit_model", "fit_casimir_model"}

\* C17 (as claimed): applied to fewer samples than coefficients, the sample
\* list being empty included, a fit function returns its coefficients and
\* its error summary and does not raise.
C17_FitNeverRaises ==
    script \in FitScripts /\ pc \in {"done", "raised"} /\ Len(args) < 3 =>
        /\ pc = "done"
        /\ result.fit.raises = "none"

----------------------------------------------------------------------------
\* the mean over the samples of |q_pred - nearest integer to q_pred|
MeanIntegerDeviation(q_pred) ==
    RatOver(RatSum([i \in 1..Len(q_pred) |->
                       RatAbs(RatMinus(q_pred[i], Rat(Round(q_pred[i]), 1)))], 1),
            Len(q_pred))

\* C18 (as claimed): the value fit_model returns and prints as the average q
\* quantization error, and compares with 0.1, is the mean over the samples of
\* the distance of q_pred = 4 * n_pred to its nearest integer.
C18_IntegerDeviation ==
    script = "fit_model" /\ pc = "done" =>
        /\ result.fit.avg_q_error = MeanIntegerDeviation(result.fit.q_pred)
        /\ result.fit.near_integers
             = RatLess(MeanIntegerDeviation(result.fit.q_pred), Rat(1, 10))

----------------------------------------------------------------------------
\* C19: every assignment assign_a5_representations makes has dim in
\* {1,3,4,5}, lists the weight set of that dim, and has its weight w in it,
\* whatever the sign of the integer code q.
C19_AssignmentInLabelSet ==
    script = "fit_model" /\ pc \in {"fit", "done", "raised"} =>
        \A i \in 1..Len(result.assignments) :
            LET a == result.assignments[i]
            IN  /\ a.dim \in {1, 3, 4, 5}
                /\ Elements(a.weights) = WeightSet(a.dim)
                /\ a.w \in WeightSet(a.dim)

\* C19 witness: a quark and a boson with negative codes that are not
\* multiples of 3 and 5 have been assigned.
C19_Witness ==
    /\ script = "fit_model"
    /\ pc = "fit"
    /\ Len(result.assignments) = 2
    /\ result.assignments[1].dim = 3
    /\ result.assignments[1].q = -2
    /\ result.assignments[1].w = 0
    /\ result.assignments[2].dim = 5
    /\ result.assignments[2].q = -1
    /\ result.assignments[2].w = 2

----------------------------------------------------------------------------
\* C20 (as claimed): every assignment fit_casimir_model makes has dim in
\* {1,3,4,5} and a weight w in the weight set of that dim; every quark placed
\* in dim 3 has w in {-1,0,1}.
C20_CasimirInLabelSet ==
    script = "fit_casimir_model" /\ pc \in {"done", "raised"} =>
        \A i \in 1..Len(result.assignments) :
            LET a == result.assignments[i]
            IN  /\ a.dim \in {1, 3, 4, 5}
                /\ a.w \in WeightSet(a.dim)

----------------------------------------------------------------------------
(* SpecPredict: the predictors and try_different_assignments               *)

(* A positive float is kept by its logarithm to the base phi, a rational;  *)
(* 0.0 is what an underflow leaves and inf what an overflow leaves.        *)

FloatZero == [cls |-> "zero", log |-> Rat(0, 1)]

FloatInf == [cls |-> "inf", log |-> Rat(0, 1)]

\* what phi ** n is when Python raises OverflowError instead of returning
FloatRaise == [cls |-> "raise", log |-> Rat(0, 1)]

FloatOf(l) == [cls |-> "finite", log |-> l]

\* log_phi of 2^-1075: below it a double rounds to 0.0
SmallestLog == Rat(0 - 154845, 100)

\* log_phi of the largest double
LargestLog == Rat(147499, 100)

\* the double with logarithm l, 0.0 or inf out of the range of a double
Saturated(l) ==
    IF RatLess(l, SmallestLog) THEN FloatZero
    ELSE IF RatLess(LargestLog, l) THEN FloatInf
    ELSE FloatOf(l)

\* phi ** n_pred: on Python floats an overflow raises OverflowError, on the
\* numpy floats a fit returns it gives inf
PhiPower(n, numpy) ==
    IF Saturated(n).cls = "inf" /\ ~numpy THEN FloatRaise ELSE Saturated(n)

\* m_e * x for a reference mass m_e > 0, here ref
MassTimes(ref, x) ==
    IF x.cls = "finite" THEN Saturated(RatPlus(ref.log, x.log)) ELSE x

\* x < y on floats
FloatLess(x, y) ==
    LET rank(z) == CASE z.cls = "zero" -> 0 [] z.cls = "finite" -> 1
                     [] z.cls = "inf" -> 2 [] OTHER -> 3
    IN  \/ rank(x) < rank(y)
        \/ x.cls = "finite" /\ y.cls = "finite" /\ RatLess(x.log, y.log)

\* lo < mass < hi, the bounds given by their logarithms
Between(lo, mass, hi) ==
    /\ mass.cls = "finite"
    /\ RatLess(lo, mass.log)
    /\ RatLess(mass.log, hi)

\* log_phi(1e20) = 95.6994
Log1e20 == Rat(956994, 10000)

\* log_phi(1e10) = 47.8497
Log1e10 == Rat(478497, 10000)

\* 1e-20 < p['mass'] < 1e20
InWindow(mass) == Between(RatMinus(Rat(0, 1), Log1e20), mass, Log1e20)

RECURSIVE Ascending(_)
\* the floats of the set K, smallest first: the median, the smaller ones
\* before it and the larger ones after it
Ascending(K) ==
    IF K = {} THEN <<>>
    ELSE LET median == CHOOSE x \in K :
                           Cardinality({y \in K : FloatLess(y, x)})
                               = (Cardinality(K) - 1) \div 2
         IN  Ascending({y \in K : FloatLess(y, median)})
                 \o <<median>>
                 \o Ascending({y \in K : FloatLess(median, y)})

RECURSIVE Joined(_, _, _)
\* the lists parts[lo], ..., parts[hi] one after the other
Joined(parts, lo, hi) ==
    IF lo > hi THEN <<>>
    ELSE IF lo = hi THEN parts[lo]
    ELSE Joined(parts, lo, (lo + hi) \div 2)
             \o Joined(parts, (lo + hi) \div 2 + 1, hi)

\* (mutant) the list as it was appended to
Unsorted(list) == list

\* list.sort(key=lambda x: x['mass']): ascending, and stable, so entries of
\* equal mass keep the order they were appended in
SortByMass(list) ==
    LET keys == Ascending({list[i].mass : i \in 1..Len(list)})
    IN  Joined([k \in 1..Len(keys) |->
                   SelectSeq(list, LAMBDA p : p.mass = keys[k])],
               1, Len(keys))

\* the 13 states, in the order every predictor lists them
all_states ==
    <<[rep |-> "1D", dim |-> 1, C |-> 0, w |-> 0],
      [rep |-> "3D", dim |-> 3, C |-> 8, w |-> -1],
      [rep |-> "3D", dim |-> 3, C |-> 8, w |-> 0],
      [rep |-> "3D", dim |-> 3, C |-> 8, w |-> 1],
      [rep |-> "4D", dim |-> 4, C |-> 15, w |-> -3],
      [rep |-> "4D", dim |-> 4, C |-> 15, w |-> -1],
      [rep |-> "4D", dim |-> 4, C |-> 15, w |-> 1],
      [rep |-> "4D", dim |-> 4, C |-> 15, w |-> 3],
      [rep |-> "5D", dim |-> 5, C |-> 24, w |-> -2],
      [rep |-> "5D", dim |-> 5, C |-> 24, w |-> -1],
      [rep |-> "5D", dim |-> 5, C |-> 24, w |-> 0],
      [rep |-> "5D", dim |-> 5, C |-> 24, w |-> 1],
      [rep |-> "5D", dim |-> 5, C |-> 24, w |-> 2]>>

\* (mutant) a list that still holds what an earlier invocation appended
KeptList(earlier) == earlier

\* predictions = []: a fresh list, whatever an earlier invocation built
EmptyList(earlier) == <<>>

\* what a predictor hands back: the exception of the first power that
\* overflows, or the sorted list with the lines it printed
Outcome13(built, sorted, printed) ==
    IF \E i \in 1..Len(built) : built[i].mass.cls = "raise"
    THEN [raises |-> "OverflowError", predictions |-> <<>>, printed |-> <<>>,
          returns |-> FALSE]
    ELSE [raises |-> "none", predictions |-> sorted, printed |-> printed,
          returns |-> TRUE]

\* model_builder_clean.predict_new_particles, lines 235-319
predict_new_particles(alpha, beta, gamma, ref, numpy, earlier) ==
    LET prediction(s) ==
            LET n_pred == RatPlus(RatPlus(RatTimes(alpha, s.dim),
                                          RatTimes(beta, s.w)), gamma)
            IN  [rep |-> s.rep, dim |-> s.dim, w |-> s.w, n |-> n_pred,
                 q |-> RatTimes(n_pred, 4),
                 mass |-> MassTimes(ref, PhiPower(n_pred, numpy))]
        built == EmptyList(earlier)
                    \o [i \in 1..Len(all_states) |-> prediction(all_states[i])]
        predictions == SortByMass(built)
    IN  Outcome13(built, predictions,
                  SelectSeq(predictions, LAMBDA p : InWindow(p.mass)))

\* the q of a state under the parameters a, b, c
QPred(a, b, c, s) ==
    RatPlus(RatPlus(RatTimes(a, s.C), RatTimes(b, s.w)), c)

\* the entry appended for the state s
Prediction(a, b, c, ref, numpy, s) ==
    [rep |-> s.rep, dim |-> s.dim, C |-> s.C, w |-> s.w,
     q |-> QPred(a, b, c, s), n |-> RatOver(QPred(a, b, c, s), 4),
     mass |-> MassTimes(ref, PhiPower(RatOver(QPred(a, b, c, s), 4), numpy))]

\* the first k entries of a list, list[:k]
FirstOf(list, k) == SubSeq(list, 1, Min(k, Len(list)))

\* neutrino_a5_model.predict_all_states, lines 187-227
predict_all_states(a, b, c, ref, numpy, earlier) ==
    LET built == EmptyList(earlier)
                    \o [i \in 1..Len(all_states) |->
                           Prediction(a, b, c, ref, numpy, all_states[i])]
        predictions == SortByMass(built)
    IN  Outcome13(built, predictions,
                  SelectSeq(FirstOf(predictions, 15),
                            LAMBDA p : /\ RatLess(Rat(-20, 1), p.q)
                                       /\ RatLess(p.q, Rat(200, 1))))

\* a5_casimir_ratio.main, lines 293-328: q = a * C + b * w; the block hands
\* its list to nothing
casimir_ratio_block(a, b, ref, numpy, earlier) ==
    LET built == EmptyList(earlier)
                    \o [i \in 1..Len(all_states) |->
                           Prediction(a, b, Rat(0, 1), ref, numpy, all_states[i])]
        predictions == SortByMass(built)
    IN  [Outcome13(built, predictions,
                   SelectSeq(predictions, LAMBDA p : InWindow(p.mass)))
            EXCEPT !.returns = FALSE]
\* definitive_a5_model_fixed.predict_new_particles, lines 255-298: the
\* 10 * 40 * 10 triples of the three loops, c fastest
definitive_predictions(ref, earlier) ==
    LET triple(i) == [a |-> -35 + ((i - 1) \div 400),
                      b |-> -20 + (((i - 1) \div 10) % 40),
                      c |-> 5 + ((i - 1) % 10)]
        entry(t) ==
            LET qq == 8 * t.a + 15 * t.b + 24 * t.c
            IN  [a |-> t.a, b |-> t.b, c |-> t.c, q |-> qq, n |-> Rat(qq, 4),
                 mass |-> MassTimes(ref, PhiPower(Rat(qq, 4), FALSE))]
        known(e) == \E j \in 1..Len(coeffs) :
                        /\ coeffs[j].a = e.a
                        /\ coeffs[j].b = e.b
                        /\ coeffs[j].c = e.c
        kept(e) == /\ ~known(e)
                   /\ -300 < e.q
                   /\ e.q < 300
                   /\ Between(RatMinus(Rat(0, 1), Log1e10), e.mass, Log1e10)
        new_predictions ==
            EmptyList(earlier)
                \o SelectSeq([i \in 1..4000 |-> entry(triple(i))], kept)
        sorted == SortByMass(new_predictions)
    IN  [raises |-> "none", predictions |-> sorted,
         printed |-> FirstOf(sorted, 10), returns |-> FALSE]

(* try_different_assignments, model_builder_clean.py lines 180-233         *)

\* possible_reps, lines 188-193
possible_reps ==
    <<[dim |-> 1, weights |-> <<0>>],
      [dim |-> 3, weights |-> <<-1, 0, 1>>],
      [dim |-> 4, weights |-> <<-3, -1, 1, 3>>],
      [dim |-> 5, weights |-> <<-2, -1, 0, 1, 2>>]>>

\* (mutant) error <= best_error
ErrorNotLarger(error, best) == best.error.inf \/ ~RatLess(best.error.val, error)

\* line 212: error < best_error, best_error being float('inf') or a number
ErrorSmaller(error, best) == best.error.inf \/ RatLess(error, best.error.val)

\* lines 209-210: error = abs(alpha * dim + beta * w + gamma - p['n'])
AssignmentError(p, alpha, beta, gamma, dim, w) ==
    RatAbs(RatMinus(RatPlus(RatPlus(RatTimes(alpha, dim), RatTimes(beta, w)),
                            gamma), p.n))

RECURSIVE TryWeights(_, _, _, _, _, _, _)
\* lines 208-215: the weights rep.weights[j..] tried after best
TryWeights(p, alpha, beta, gamma, rep, j, best) ==
    IF j > Len(rep.weights) THEN best
    ELSE LET error == AssignmentError(p, alpha, beta, gamma, rep.dim,
                                      rep.weights[j])
         IN  TryWeights(p, alpha, beta, gamma, rep, j + 1,
                 IF ErrorSmaller(error, best)
                 THEN [error |-> [inf |-> FALSE, val |-> error],
                       dim |-> rep.dim, w |-> rep.weights[j]]
                 ELSE best)

RECURSIVE TryReps(_, _, _, _, _, _)
\* lines 206-215: the representations possible_reps[i..] tried after best
TryReps(p, alpha, beta, gamma, i, best) ==
    IF i > Len(possible_reps) THEN best
    ELSE TryReps(p, alpha, beta, gamma, i + 1,
                 TryWeights(p, alpha, beta, gamma, possible_reps[i], 1, best))

\* try_different_assignments(particles, alpha, beta, gamma)
try_different_assignments(ps, alpha, beta, gamma) ==
    [i \in 1..Len(ps) |->
        LET best == TryReps(ps[i], alpha, beta, gamma, 1,
                            [error |-> [inf |-> TRUE, val |-> Rat(0, 1)],
                             dim |-> 1, w |-> 0])
        IN  [name |-> ps[i].name, dim |-> best.dim, w |-> best.w,
             n_actual |-> ps[i].n, error |-> best.error]]

(* The specification                                                       *)

\* fitted parameters: ordinary ones, ones that carry a state out of the
\* window 1e-20..1e20, and ones that carry it out of the doubles
Slopes ==
    {Rat(-2000, 1), Rat(-30, 1), Rat(-1, 1), Rat(0, 1), Rat(1, 4), Rat(1, 1),
     Rat(30, 1), Rat(2000, 1)}

WeightSlopes == {Rat(-1, 1), Rat(0, 1), Rat(1, 4), Rat(1, 1)}

Offsets == {Rat(0, 1), Rat(3, 4)}

\* reference masses m_e > 0: phi ** -15.75 = 0.000511, and 1.0
ReferenceMasses == {FloatOf(Rat(-63, 4)), FloatOf(Rat(0, 1))}

ThreeParameterPredictors ==
    {"model_builder_clean.predict_new_particles",
     "neutrino_a5_model.predict_all_states"}

Predictors ==
    ThreeParameterPredictors
        \cup {"a5_casimir_ratio.main",
              "definitive_a5_model_fixed.predict_new_particles"}

InitPredictor ==
    /\ IdleScript
    /\ pc = "call"
    /\ result = <<>>
    /\ \/ /\ script \in ThreeParameterPredictors
          /\ args \in [alpha : Slopes, beta : WeightSlopes, gamma : Offsets,
                       m_e : ReferenceMasses, numpy : BOOLEAN]
       \/ /\ script = "a5_casimir_ratio.main"
          /\ args \in [a : Slopes, b : WeightSlopes, m_e : ReferenceMasses,
                       numpy : BOOLEAN]
       \/ /\ script = "definitive_a5_model_fixed.predict_new_particles"
          /\ args \in [m_e : ReferenceMasses]

\* one invocation of the predictor of the script sc, after an invocation
\* that built the list earlier
Invocation(sc, ar, earlier) ==
    CASE sc = "model_builder_clean.predict_new_particles" ->
             predict_new_particles(ar.alpha, ar.beta, ar.gamma, ar.m_e,
                                   ar.numpy, earlier)
      [] sc = "neutrino_a5_model.predict_all_states" ->
             predict_all_states(ar.alpha, ar.beta, ar.gamma, ar.m_e,
                                ar.numpy, earlier)
      [] sc = "a5_casimir_ratio.main" ->
             casimir_ratio_block(ar.a, ar.b, ar.m_e, ar.numpy, earlier)
      [] OTHER -> definitive_predictions(ar.m_e, earlier)

\* the predictor is invoked
Predict ==
    /\ script \in Predictors
    /\ pc = "call"
    /\ \E r \in {Invocation(script, args, <<>>)} :
           /\ result' = <<r>>
           /\ pc' = IF r.raises = "none" THEN "returned" ELSE "raised"
    /\ UNCHANGED fileVars
    /\ UNCHANGED <<script, args, decompVars, tableVars, loadVars>>

\* the predictor is invoked once more, with the same arguments
PredictAgain ==
    /\ script \in Predictors
    /\ pc = "returned"
    /\ result' = Append(result,
                        Invocation(script, args, result[1].predictions))
    /\ pc' = "repeated"
    /\ UNCHANGED fileVars
    /\ UNCHANGED <<script, args, decompVars, tableVars, loadVars>>

\* the particles try_different_assignments is given: n in quarters
AssignedParticles ==
    {[name |-> nm, n |-> Rat(c, 4)] :
        nm \in {"muon"}, c \in (0 - MaxCode)..MaxCode}

InitTry ==
    /\ IdleScript
    /\ script = "try_different_assignments"
    /\ pc = "call"
    /\ args \in [particles : FewOf(AssignedParticles),
                 alpha : WeightSlopes, beta : WeightSlopes, gamma : Offsets]
    /\ result = <<>>

\* best_assignments = try_different_assignments(particles, alpha, beta, gamma)
TryAssignments ==
    /\ script = "try_different_assignments"
    /\ pc = "call"
    /\ result' = try_different_assignments(args.particles, args.alpha,
                                           args.beta, args.gamma)
    /\ pc' = "returned"
    /\ UNCHANGED fileVars
    /\ UNCHANGED <<script, args, decompVars, tableVars, loadVars>>

InitPredict == InitPredictor \/ InitTry

NextPredict == Predict \/ PredictAgain \/ TryAssignments

SpecPredict == InitPredict /\ [][NextPredict]_vars

----------------------------------------------------------------------------
(* The predictors' properties                                              *)

\* the lists the invocations so far have produced
ProducedLists ==
    IF script \in Predictors /\ pc \in {"returned", "repeated"}
    THEN {result[i].predictions : i \in 1..Len(result)}
    ELSE {}

\* C21 (as amended): the list a predictor produces is in ascending order of
\* predicted mass, mass[i] <= mass[i+1] for consecutive entries
C21_SortedByMass ==
    \A list \in ProducedLists :
        \A i \in 1..(Len(list) - 1) : ~FloatLess(list[i + 1].mass, list[i].mass)

\* C21, witness: a produced list that does not start with the state listed
\* first and whose masses do increase somewhere
C21_Witness ==
    \E list \in ProducedLists :
        /\ Len(list) > 1
        /\ list[1].dim # 1
        /\ \E i \in 1..(Len(list) - 1) : FloatLess(list[i].mass, list[i + 1].mass)

\* C21 as stated: equivalently, the predicted exponent is non-decreasing
\* along the list
C21_SortedByExponent ==
    \A list \in ProducedLists :
        \A i \in 1..(Len(list) - 1) : ~RatLess(list[i + 1].n, list[i].n)

\* C22: every entry of the list a predictor returns, and every entry it
\* prints, has a finite mass inside the window 1e-20..1e20
C22_OnlyPhysicalResults ==
    script \in Predictors \ {"definitive_a5_model_fixed.predict_new_particles"}
        /\ pc \in {"returned", "repeated"}
    => \A i \in 1..Len(result) :
           /\ result[i].returns
              => \A j \in 1..Len(result[i].predictions) :
                     InWindow(result[i].predictions[j].mass)
           /\ \A j \in 1..Len(result[i].printed) :
                  InWindow(result[i].printed[j].mass)

StateError(i, s) ==
    AssignmentError(args.particles[i], args.alpha, args.beta, args.gamma,
                    s.dim, s.w)

\* C26: try_different_assignments returns, for every particle, a state of
\* the 13 whose error is minimal over the 13, stores that minimum as the
\* error, and of several minimal states keeps the one enumerated first
C26_TrueMinimum ==
    script = "try_different_assignments" /\ pc = "returned"
    => /\ Len(result) = Len(args.particles)
       /\ \A i \in 1..Len(result) :
              \E k \in 1..Len(all_states) :
                  /\ result[i].dim = all_states[k].dim
                  /\ result[i].w = all_states[k].w
                  /\ ~result[i].error.inf
                  /\ result[i].error.val = StateError(i, all_states[k])
                  /\ \A j \in 1..Len(all_states) :
                         ~RatLess(StateError(i, all_states[j]),
                                  StateError(i, all_states[k]))
                  /\ \A j \in 1..(k - 1) :
                         RatLess(StateError(i, all_states[k]),
                                 StateError(i, all_states[j]))

\* C26, witness: a particle for which two states of different dimension
\* share the minimal error
C26_Witness ==
    /\ script = "try_different_assignments"
    /\ pc = "returned"
    /\ \E i \in 1..Len(result) :
           \E s \in {all_states[k] : k \in 1..Len(all_states)} :
               /\ s.dim # result[i].dim
               /\ StateError(i, s) = result[i].error.val
               /\ result[i].error.val # Rat(0, 1)

\* C24: for each of the 15 exact q values, the best-fit search of
\* express_q_as_combination ends with d = 0 and with exactly the triple
\* hard-coded for that particle in find_integer_coefficients
C24_HardCodedIsSearched ==
    script = "q_pattern_analysis" /\ printed_fit # <<>>
    => \A i \in 1..Len(coeffs) :
           q_values[coeffs[i].name] = q
           => best_coeffs = <<coeffs[i].a, coeffs[i].b, coeffs[i].c, 0>>

\* C24, witness: the search has finished for the q of the Higgs boson, with
\* an exact fit
C24_Witness ==
    /\ script = "q_pattern_analysis"
    /\ printed_fit # <<>>
    /\ q = q_values["higgs_boson"]
    /\ best_coeffs[4] = 0
    /\ \E i \in 1..Len(coeffs) : coeffs[i].name = "higgs_boson"

\* the loaders C25 compares
AgreeingLoaders == {"casimir_model", "model_builder_clean", "a5_casimir_ratio"}

\* C25: for the same record (name, mass) and the same reference, each of
\* casimir_model.load_particle_data, model_builder_clean.load_particle_data
\* and a5_casimir_ratio.load_data_with_exact_q yields the same q, the
\* integer round(4n)
C25_LoadersAgree ==
    script \in AgreeingLoaders /\ pc = "done"
    => \A i \in 1..Len(particles) :
           particles[i].q
               = Rat(Round(RatTimes(LogPhi(particles[i].mass, m_e), 4)), 1)

----------------------------------------------------------------------------
(* SpecFiles: the scripts that keep files, run one after the other         *)

(* save.py and load.py                                                     *)

\* the minutes the clock runs through, and the saves of one behaviour
MaxClock == 2
MaxSaves == 4

\* what is typed at "What did we just do?"
Texts == {"fit", "plot"}

\* entries written by earlier sessions, the oldest first
EarlierSaves ==
    <<[time |-> 0, what |-> "setup"], [time |-> 0, what |-> "load"],
      [time |-> 0, what |-> "scan"], [time |-> 0, what |-> "plot"]>>

\* (mutant) saves[:3], the three oldest entries
FirstThree(saves) == SubSeq(saves, 1, Min(3, Len(saves)))

\* saves[-3:], line 15
LastThree(saves) ==
    SubSeq(saves, Len(saves) - Min(3, Len(saves)) + 1, Len(saves))

\* lines 7-11: json.load of saves.json, [] when the file cannot be opened
LoadedSaves(file) == IF file.exists THEN file.saves ELSE <<>>

InitSession ==
    /\ IdleDecomp
    /\ IdleTables
    /\ IdleLoad
    /\ IdleUnit
    /\ script = "session"
    /\ pc = "shell"
    /\ \E k \in 0..Len(EarlierSaves) :
           /\ saves_json \in {NoFile, ListFile(SubSeq(EarlierSaves, 1, k))}
           /\ history = LoadedSaves(saves_json)
    /\ last_save_txt = NoText
    /\ clock = 0
    /\ particles_table = NoTable
    /\ sequence = 0
    /\ stdout = NoOutput

\* one run of save.py, at the minute t, with the text what
Save ==
    /\ script = "session"
    /\ Len(history) < Len(EarlierSaves) + MaxSaves
    /\ \E t \in clock..MaxClock, what \in Texts :
           LET entry == [time |-> t, what |-> what]
               saves == LastThree(Append(LoadedSaves(saves_json), entry))
           IN  /\ saves_json' = ListFile(saves)
               /\ last_save_txt' = [exists |-> TRUE, time |-> t, what |-> what]
               /\ clock' = t
               /\ history' = Append(history, entry)
               /\ stdout' = [script |-> "save.py", saved |-> t, what |-> what]
    /\ UNCHANGED <<script, pc, particles_table, sequence>>
    /\ UNCHANGED <<decompVars, tableVars, loadVars, unitVars>>

\* one run of load.py, lines 8-23
Load ==
    /\ script = "session"
    /\ stdout' =
           IF ~saves_json.exists
           THEN [script |-> "load.py", line |-> "Starting fresh - no saves found."]
           ELSE IF saves_json.saves = <<>>
           THEN [script |-> "load.py", line |-> "No saves found."]
           ELSE LET saves == saves_json.saves
                IN  [script |-> "load.py", line |-> "LAST SESSION",
                     last_session |-> saves[Len(saves)].time,
                     what_we_did |-> saves[Len(saves)].what,
                     previous |-> IF Len(saves) > 1
                                  THEN <<saves[Len(saves) - 1]>>
                                  ELSE <<>>]
    /\ UNCHANGED <<script, pc, saves_json, last_save_txt, clock, history,
                   particles_table, sequence>>
    /\ UNCHANGED <<decompVars, tableVars, loadVars, unitVars>>

(* create_database.py, add_particles.py and view_database.py, on the table *)
(* particles of data/db/particle_physics.db: the columns id, name and      *)
(* mass_gev, the mass in units of 1e-6 GeV                                 *)

\* test_particles, create_database.py lines 26-30
test_particles ==
    <<[name |-> "electron", mass_gev |-> 511],
      [name |-> "muon", mass_gev |-> 105660],
      [name |-> "tau", mass_gev |-> 1777000]>>

\* new_particles, add_particles.py lines 8-18
new_particles ==
    <<[name |-> "up_quark", mass_gev |-> 2160],
      [name |-> "down_quark", mass_gev |-> 4670],
      [name |-> "charm_quark", mass_gev |-> 1270000],
      [name |-> "strange_quark", mass_gev |-> 93000],
      [name |-> "top_quark", mass_gev |-> 173000000],
      [name |-> "bottom_quark", mass_gev |-> 4180000],
      [name |-> "W_boson", mass_gev |-> 80377000],
      [name |-> "Z_boson", mass_gev |-> 91187600],
      [name |-> "Higgs", mass_gev |-> 125250000]>>

\* the largest id of the rows, 0 for none
MaxId(tbl) ==
    IF tbl = <<>> THEN 0
    ELSE CHOOSE m \in {tbl[i].id : i \in 1..Len(tbl)} :
             \A i \in 1..Len(tbl) : tbl[i].id <= m

RECURSIVE InsertOrIgnore(_, _, _)
\* executemany('INSERT OR IGNORE ...', ps) from ps[i] on: a name the table
\* holds already is skipped (name TEXT UNIQUE), a new row gets the next id
InsertOrIgnore(tbl, ps, i) ==
    IF i > Len(ps) THEN tbl
    ELSE IF \E j \in 1..Len(tbl) : tbl[j].name = ps[i].name
    THEN InsertOrIgnore(tbl, ps, i + 1)
    ELSE InsertOrIgnore(Append(tbl, [id |-> MaxId(tbl) + 1, name |-> ps[i].name,
                                     mass_gev |-> ps[i].mass_gev]), ps, i + 1)

\* SELECT ... FROM particles ORDER BY mass_gev
OrderByMass(tbl) ==
    LET place(i) ==
            Cardinality({j \in 1..Len(tbl) :
                            \/ tbl[j].mass_gev < tbl[i].mass_gev
                            \/ tbl[j].mass_gev = tbl[i].mass_gev /\ j <= i})
    IN  [p \in 1..Len(tbl) |-> tbl[CHOOSE i \in 1..Len(tbl) : place(i) = p]]

\* f"{x / y:.2f}": the quotient in hundredths
TwoDecimals(x, y) == Round(Rat(100 * x, y))

\* view_database.py lines 25-37: the lines printed under "Mass Ratios:"
MassRatios(results) ==
    IF Len(results) < 2 THEN <<>>
    ELSE LET electron_mass == results[1].mass_gev
             muon_mass == results[2].mass_gev
             tau_mass == IF Len(results) >= 3 THEN results[3].mass_gev ELSE 0
         IN  <<[label |-> "m_mu/m_e",
                value |-> TwoDecimals(muon_mass, electron_mass)]>>
             \o (IF tau_mass # 0
                 THEN <<[label |-> "m_tau/m_mu",
                         value |-> TwoDecimals(tau_mass, muon_mass)],
                        [label |-> "m_tau/m_e",
                         value |-> TwoDecimals(tau_mass, electron_mass)]>>
                 ELSE <<>>)

InitDatabase ==
    /\ IdleDecomp
    /\ IdleTables
    /\ IdleLoad
    /\ IdleUnit
    /\ script = "database"
    /\ pc = "shell"
    /\ saves_json = NoFile
    /\ last_save_txt = NoText
    /\ clock = 0
    /\ history = <<>>
    /\ particles_table = NoTable
    /\ sequence = 0
    /\ stdout = NoOutput

\* one run of create_database.py
CreateDatabase ==
    /\ script = "database"
    /\ \E tbl \in {InsertOrIgnore(particles_table.rows, test_particles, 1)} :
           /\ particles_table' = Table(tbl)
           /\ stdout' = [script |-> "create_database.py", count |-> Len(tbl)]
    /\ UNCHANGED <<script, pc, saves_json, last_save_txt, clock, history,
                   sequence>>
    /\ UNCHANGED <<decompVars, tableVars, loadVars, unitVars>>

\* one run of add_particles.py: without the table, "no such table"
AddParticles ==
    /\ script = "database"
    /\ IF ~particles_table.exists
       THEN /\ stdout' = [script |-> "add_particles.py",
                          raises |-> "OperationalError"]
            /\ UNCHANGED particles_table
       ELSE \E tbl \in {InsertOrIgnore(particles_table.rows, new_particles, 1)} :
                /\ particles_table' = Table(tbl)
                /\ stdout' = [script |-> "add_particles.py", raises |-> "none",
                              total |-> Len(tbl)]
    /\ UNCHANGED <<script, pc, saves_json, last_save_txt, clock, history,
                   sequence>>
    /\ UNCHANGED <<decompVars, tableVars, loadVars, unitVars>>

\* one run of view_database.py
ViewDatabase ==
    /\ script = "database"
    /\ stdout' =
           IF ~particles_table.exists
           THEN [script |-> "view_database.py", raises |-> "OperationalError"]
           ELSE [script |-> "view_database.py", raises |-> "none",
                 contents |-> OrderByMass(particles_table.rows),
                 ratios |-> MassRatios(OrderByMass(particles_table.rows))]
    /\ UNCHANGED <<script, pc, saves_json, last_save_txt, clock, history,
                   particles_table, sequence>>
    /\ UNCHANGED <<decompVars, tableVars, loadVars, unitVars>>

(* focused_a5_complete.setup_database, on the table particles of           *)
(* particle_physics.db: the columns id, name, mass_gev and n_value, a mass *)
(* kept by its logarithm to the base phi, in hundredths                    *)

\* particles_data, lines 53-78
particles_data ==
    <<[name |-> "electron", mass_gev |-> FloatOf(Rat(-1575, 100))],
      [name |-> "electron_neutrino", mass_gev |-> FloatOf(Rat(-7177, 100))],
      [name |-> "muon", mass_gev |-> FloatOf(Rat(-467, 100))],
      [name |-> "muon_neutrino", mass_gev |-> FloatOf(Rat(-6087, 100))],
      [name |-> "tau", mass_gev |-> FloatOf(Rat(119, 100))],
      [name |-> "tau_neutrino", mass_gev |-> FloatOf(Rat(-5620, 100))],
      [name |-> "up_quark", mass_gev |-> FloatOf(Rat(-1272, 100))],
      [name |-> "down_quark", mass_gev |-> FloatOf(Rat(-1114, 100))],
      [name |-> "charm_quark", mass_gev |-> FloatOf(Rat(51, 100))],
      [name |-> "strange_quark", mass_gev |-> FloatOf(Rat(-487, 100))],
      [name |-> "top_quark", mass_gev |-> FloatOf(Rat(1071, 100))],
      [name |-> "bottom_quark", mass_gev |-> FloatOf(Rat(297, 100))],
      [name |-> "photon", mass_gev |-> FloatZero],
      [name |-> "W_boson", mass_gev |-> FloatOf(Rat(912, 100))],
      [name |-> "Z_boson", mass_gev |-> FloatOf(Rat(938, 100))],
      [name |-> "gluon", mass_gev |-> FloatZero],
      [name |-> "higgs_boson", mass_gev |-> FloatOf(Rat(1004, 100))]>>

\* NULL, and a stored number
Null == [null |-> TRUE, v |-> Rat(0, 1)]

NotNull(x) == [null |-> FALSE, v |-> x]

\* (mutant) the rows are left in the table
NotCleared(tbl) == tbl

\* "DELETE FROM particles", line 49
Cleared(tbl) == <<>>

RECURSIVE InsertAll(_, _, _, _)
\* lines 81-86 from ps[i] on: INSERT gives the row the id after the largest
\* one given out so far, with n_value NULL; a name the table holds already
\* raises IntegrityError (name TEXT UNIQUE NOT NULL)
InsertAll(tbl, ps, i, seq) ==
    IF i > Len(ps) THEN [raises |-> "none", rows |-> tbl, seq |-> seq]
    ELSE IF \E j \in 1..Len(tbl) : tbl[j].name = ps[i].name
    THEN [raises |-> "IntegrityError", rows |-> tbl, seq |-> seq]
    ELSE InsertAll(Append(tbl, [id |-> seq + 1, name |-> ps[i].name,
                                mass_gev |-> ps[i].mass_gev, n_value |-> Null]),
                   ps, i + 1, seq + 1)

\* lines 90-91: SELECT mass_gev ... WHERE name='electron', fetchone()[0]
ElectronMass(tbl) ==
    (CHOOSE r \in {tbl[i] : i \in 1..Len(tbl)} : r.name = "electron").mass_gev

\* lines 94-107: n_value = log(mass / m_e) / log(phi) for the rows with
\* mass_gev > 0
WithNValues(tbl, ref) ==
    [i \in 1..Len(tbl) |->
        IF tbl[i].mass_gev.cls = "finite"
        THEN [tbl[i] EXCEPT
                 !.n_value = NotNull(RatMinus(tbl[i].mass_gev.log, ref.log))]
        ELSE tbl[i]]

\* setup_database, lines 22-118, on the committed rows tbl (none when the
\* table is created at line 31): the rows it leaves (nothing is committed
\* when it raises)
setup_database(tbl, seq) ==
    LET inserted == InsertAll(Cleared(tbl), particles_data, 1, seq)
    IN  IF inserted.raises # "none"
        THEN [raises |-> inserted.raises, rows |-> tbl, seq |-> seq]
        ELSE [raises |-> "none",
              rows |-> WithNValues(inserted.rows, ElectronMass(inserted.rows)),
              seq |-> inserted.seq,
              m_e |-> ElectronMass(inserted.rows)]

\* how often setup_database is run in one behaviour
MaxSetups == 3

\* the rows the table may hold before the first run
EarlierRows ==
    {<<>>,
     <<[id |-> 1, name |-> "electron", mass_gev |-> FloatOf(Rat(0, 1)),
        n_value |-> Null]>>,
     <<[id |-> 1, name |-> "proton", mass_gev |-> FloatOf(Rat(-13, 100)),
        n_value |-> NotNull(Rat(1562, 100))],
       [id |-> 2, name |-> "photon", mass_gev |-> FloatZero,
        n_value |-> NotNull(Rat(0, 1))]>>,
     <<[id |-> 1, name |-> "gluon", mass_gev |-> FloatOf(Rat(5, 1)),
        n_value |-> Null],
       [id |-> 4, name |-> "higgs_boson", mass_gev |-> FloatZero,
        n_value |-> NotNull(Rat(3, 4))],
       [id |-> 7, name |-> "neutron", mass_gev |-> FloatOf(Rat(-12, 100)),
        n_value |-> Null]>>}

InitSetup ==
    /\ IdleDecomp
    /\ IdleTables
    /\ IdleLoad
    /\ IdleUnit
    /\ script = "setup_database"
    /\ pc = "shell"
    /\ saves_json = "missing"
    /\ last_save_txt = "missing"
    /\ clock = 0
    /\ history = <<>>
    /\ particles_table \in {NoTable} \cup {Table(rs) : rs \in EarlierRows}
    /\ sequence = Len(particles_table.rows) * 4
    /\ stdout = NoOutput

\* one run of setup_database
SetupDatabase ==
    /\ script = "setup_database"
    /\ sequence < Len(particles_data) * MaxSetups + 12
    /\ \E r \in {setup_database(particles_table.rows, sequence)} :
           /\ particles_table' = Table(r.rows)
           /\ sequence' = r.seq
           /\ stdout' = IF r.raises = "none"
                        THEN [script |-> "setup_database", raises |-> "none",
                              populated |-> Len(particles_data), m_e |-> r.m_e]
                        ELSE [script |-> "setup_database", raises |-> r.raises]
    /\ UNCHANGED <<script, pc, saves_json, last_save_txt, clock, history>>
    /\ UNCHANGED <<decompVars, tableVars, loadVars, unitVars>>

InitFiles == InitSession \/ InitDatabase \/ InitSetup

NextFiles ==
    \/ Save \/ Load
    \/ CreateDatabase \/ AddParticles \/ ViewDatabase
    \/ SetupDatabase

SpecFiles == InitFiles /\ [][NextFiles]_vars

\* C27: after any sequence of runs of save.py, saves.json holds at most 3
\* entries, they are the most recent saves, in chronological order with the
\* newest last, and last_save.txt holds the time and the text of the newest
\* entry, the one load.py shows as LAST SESSION
C27_BoundedHistory ==
    script = "session" /\ last_save_txt.exists
    => /\ saves_json.exists
       /\ Len(saves_json.saves) \in 1..3
       /\ saves_json.saves
              = SubSeq(history, Len(history) - Len(saves_json.saves) + 1,
                       Len(history))
       /\ Len(saves_json.saves) = 3 \/ Len(saves_json.saves) = Len(history)
       /\ \A i \in 1..(Len(saves_json.saves) - 1) :
              saves_json.saves[i].time <= saves_json.saves[i + 1].time
       /\ last_save_txt.time = saves_json.saves[Len(saves_json.saves)].time
       /\ last_save_txt.what = saves_json.saves[Len(saves_json.saves)].what
       /\ stdout.script = "load.py"
              => /\ stdout.line = "LAST SESSION"
                 /\ stdout.last_session = last_save_txt.time
                 /\ stdout.what_we_did = last_save_txt.what

\* C27, witness: more saves than the file keeps, and load.py run after them
C27_Witness ==
    /\ script = "session"
    /\ last_save_txt.exists
    /\ Len(history) > 4
    /\ Len(saves_json.saves) = 3
    /\ saves_json.saves[1] # history[1]
    /\ saves_json.saves[1].time < saves_json.saves[3].time
    /\ stdout.script = "load.py"

\* the stored mass of the particle nm
StoredMass(nm) ==
    (CHOOSE r \in {particles_table.rows[i] : i \in 1..Len(particles_table.rows)} :
         r.name = nm).mass_gev

\* the value printed with the label lb
Printed(lb) ==
    (CHOOSE r \in {stdout.ratios[i] : i \in 1..Len(stdout.ratios)} :
         r.label = lb).value

\* C28: after any runs of create_database.py and add_particles.py, the value
\* view_database.py prints as m_mu/m_e is the stored muon mass over the
\* stored electron mass, and m_tau/m_mu and m_tau/m_e use the stored tau,
\* muon and electron masses
C28_RatioLabels ==
    /\ script = "database"
    /\ stdout.script = "view_database.py"
    /\ stdout.raises = "none"
    /\ stdout.ratios # <<>>
    => /\ Printed("m_mu/m_e")
              = TwoDecimals(StoredMass("muon"), StoredMass("electron"))
       /\ Printed("m_tau/m_mu")
              = TwoDecimals(StoredMass("tau"), StoredMass("muon"))
       /\ Printed("m_tau/m_e")
              = TwoDecimals(StoredMass("tau"), StoredMass("electron"))

\* the names of particles_data, in its order
SetupNames == [i \in 1..Len(particles_data) |-> particles_data[i].name]

\* C29: after one run or any number of consecutive runs of setup_database,
\* whatever rows the table held before, it holds exactly the 17 listed
\* particles, one row per name, and n_value is non-NULL exactly for the 15
\* rows with mass > 0
C29_SetupIdempotent ==
    script = "setup_database" /\ stdout.script = "setup_database"
    => \A rs \in {particles_table.rows} :
           /\ stdout.raises = "none"
           /\ particles_table.exists
           /\ [i \in 1..Len(rs) |-> rs[i].name] = SetupNames
           /\ Len(rs) = 17
           /\ \A i \in 1..Len(rs) :
                  /\ rs[i].mass_gev = particles_data[i].mass_gev
                  /\ rs[i].n_value.null <=> rs[i].mass_gev.cls # "finite"
           /\ Cardinality({i \in 1..Len(rs) : ~rs[i].n_value.null}) = 15

\* C29, witness: a second run, on a table that held other rows before the
\* first
C29_Witness ==
    /\ script = "setup_database"
    /\ stdout.script = "setup_database"
    /\ sequence > 2 * Len(particles_data)
    /\ \E i \in 1..Len(particles_table.rows) :
           /\ particles_table.rows[i].name = "muon"
           /\ ~particles_table.rows[i].n_value.null

\* C30: for every integer n >= 0 the iterative digital_root ends, returns a
\* single digit, and that digit is the closed form, 0 if n = 0 and
\* 1 + ((n - 1) mod 9) otherwise
C30_DigitalRootsAgree ==
    script = "digital_root" /\ pc = "done"
    => /\ result.iterative \in 0..9
       /\ result.iterative = result.closed
       /\ result.closed = IF args.n = 0 THEN 0 ELSE 1 + ((args.n - 1) % 9)

\* C30, witness: a number whose digit sum has two digits again, so that the
\* loop runs twice, and whose digital root is 9
C30_Witness ==
    /\ script = "digital_root"
    /\ pc = "done"
    /\ DigitSum(args.n) >= 10
    /\ result.iterative = 9

====
